---- MODULE Spec2Model ----
(***************************************************************************)
(* State-machine model of the NBODY_VR viewer (gkawa08/NBODY_VR).          *)
(*                                                                         *)
(* The repository holds three revisions of the viewer script:             *)
(*   "P0"  src/unnamed/part_000          (current: mass filter, spin UI)   *)
(*   "M1"  src/main.js lines 1..883      (event visualisation, VR)         *)
(*   "M2"  src/main.js lines 884..1449   (primary-BH / partner ellipses)   *)
(* A behaviour runs one revision, chosen in Init.  Definitions without a   *)
(* suffix model part_000; the suffixes _M1 and _M2 name the two scripts    *)
(* of main.js.                                                             *)
(*                                                                         *)
(* Scene objects live in a heap of handles; the scene graph, the id maps   *)
(* (bhObjects, nsObjects, ellipseObjects) and eventVectors hold handles.   *)
(* Numbers are exact: positions are rational vectors n/d, lengths are      *)
(* (num/den)*sqrt(sqrtOf), opacities are in tenths, colours are the hex    *)
(* values of the source.                                                   *)
(***************************************************************************)
EXTENDS Integers, Sequences, FiniteSets, TLC

(***************************************************************************)
(* null / undefined of the script: an empty tuple; a value v is <<v>>.     *)
(***************************************************************************)
Null == <<>>
Some(v) == <<v>>
IsNull(o) == o = <<>>
Val(o) == o[1]

(***************************************************************************)
(* Integer and rational 3-vectors (THREE.Vector3).                         *)
(***************************************************************************)
Abs(a) == IF a < 0 THEN -a ELSE a
Min2(a, b) == IF a < b THEN a ELSE b
Max2(a, b) == IF a > b THEN a ELSE b

RECURSIVE Gcd(_, _)
Gcd(a, b) == IF b = 0 THEN a ELSE Gcd(b, a % b)

Zero3 == <<0, 0, 0>>
VAdd(a, b) == <<a[1] + b[1], a[2] + b[2], a[3] + b[3]>>
VSub(a, b) == <<a[1] - b[1], a[2] - b[2], a[3] - b[3]>>
VScale(a, k) == <<a[1] * k, a[2] * k, a[3] * k>>
VNeg(a) == <<-a[1], -a[2], -a[3]>>
Dot(a, b) == a[1] * b[1] + a[2] * b[2] + a[3] * b[3]
Cross(a, b) == <<a[2] * b[3] - a[3] * b[2], a[3] * b[1] - a[1] * b[3], a[1] * b[2] - a[2] * b[1]>>
LenSq(a) == Dot(a, a)

\* floor of the square root
RECURSIVE ISqrtFrom(_, _)
ISqrtFrom(n, k) == IF (k + 1) * (k + 1) > n THEN k ELSE ISqrtFrom(n, k + 1)
ISqrt(n) == ISqrtFrom(n, 0)

\* the rational vector n/d in lowest terms, d > 0
RVec(n, d) ==
    LET g == Gcd(Gcd(Gcd(Abs(n[1]), Abs(n[2])), Abs(n[3])), d)
    IN  [n |-> <<n[1] \div g, n[2] \div g, n[3] \div g>>, d |-> d \div g]
RZero == [n |-> Zero3, d |-> 1]
RInt(v) == [n |-> v, d |-> 1]
RSub(a, b) == RVec(VSub(VScale(a.n, b.d), VScale(b.n, a.d)), a.d * b.d)
RNeg(a) == [n |-> VNeg(a.n), d |-> a.d]
RAdd(a, b) == RVec(VAdd(VScale(a.n, b.d), VScale(b.n, a.d)), a.d * b.d)
\* a / k for a whole k > 0
RDiv(a, k) == RVec(a.n, a.d * k)

\* a fraction in lowest terms
Fraction(n, d) == [num |-> n \div Gcd(n, d), den |-> d \div Gcd(n, d)]
FracAdd(a, b) == Fraction(a.num * b.den + b.num * a.den, a.den * b.den)
FracMul(a, b) == Fraction(a.num * b.num, a.den * b.den)

\* a length (num/den) * sqrt(sqrtOf)
Length(num, den, sqrtOf) == [num |-> num, den |-> den, sqrtOf |-> sqrtOf]
NoLength == Length(0, 1, 0)

(***************************************************************************)
(* Folding a sequence left to right (Array.prototype.forEach / for..of).   *)
(***************************************************************************)
RECURSIVE FoldSeq(_, _, _, _)
FoldSeq(Op(_, _), acc, s, i) ==
    IF i > Len(s) THEN acc ELSE FoldSeq(Op, Op(acc, s[i]), s, i + 1)
ForEach(Op(_, _), acc, s) == FoldSeq(Op, acc, s, 1)

\* a finite set of integers in ascending order
RECURSIVE SortedSeq(_)
SortedSeq(S) ==
    IF S = {} THEN <<>>
    ELSE LET m == CHOOSE x \in S : \A y \in S : x <= y
         IN  <<m>> \o SortedSeq(S \ {m})

Range(s) == {s[i] : i \in DOMAIN s}
\* a function as an explicit table (TLC then evaluates it once, not per lookup)
Table(f) == f @@ <<>>
\* Array.prototype.find: the first element that satisfies Test, or Null
Find(s, Test(_)) ==
    LET hits == {i \in DOMAIN s : Test(s[i])}
    IN  IF hits = {} THEN Null ELSE Some(s[CHOOSE i \in hits : \A j \in hits : i <= j])
\* Array.prototype.findIndex, zero-based; -1 when nothing satisfies Test
FindIndex(s, Test(_)) ==
    LET hits == {i \in DOMAIN s : Test(s[i])}
    IN  IF hits = {} THEN -1 ELSE (CHOOSE i \in hits : \A j \in hits : i <= j) - 1

(***************************************************************************)
(* Configuration of part_000.                                              *)
(***************************************************************************)
\* G = 4.4985e-3 = G_NUM / G_DEN
G_NUM == 44985
G_DEN == 10000000
SIMULATION_BOUNDS == 40
\* PSEUDO_SPIN_PARAMETER_A = 0.6 and SPIN_VECTOR_SCALE = 0.01 as fractions
PSEUDO_SPIN_PARAMETER_A == [num |-> 6, den |-> 10]
SPIN_VECTOR_SCALE == [num |-> 1, den |-> 100]

DEFAULT_COLOR == 1118481
BINARY_PARTICLE_COLOR == 16711935
INTERLOPER_PARTICLE_COLOR == 16724273
PRE_EXCHANGE_ORBIT_COLOR == 3800852
POST_EVENT_COLOR == 65535
VECTOR_COLOR == 255
SPIN_VECTOR_COLOR == 16711680
REMNANT_VEL_COLOR == 65535
MERGE_SPIN_COLOR == 16747520
COM_VELOCITY_COLOR == 255
highlightColor == 16777011
massRangeColor == 3800852
\* material defaults of the spheres: THREE.Color default white, the
\* neutron-star orange 0xffa500, the cube frame grey 0x555555
BH_MATERIAL_COLOR == 16777215
NS_MATERIAL_COLOR == 16753920
CUBE_FRAME_COLOR == 5592405
\* opacities in tenths: 1.0 and 0.1
OPACITY_FULL == 10
OPACITY_DIM == 1
\* drawVel / drawComVel: arrow length = speed * 20.0 * velScaleMultiplier
VEL_ARROW_SCALE == 20

(***************************************************************************)
(* The input tables.  A row of bh_history.csv / ns_history.csv after the   *)
(* per-column parse, and a row of bh_events.csv.  Separations of the pairs *)
(* an event names are whole numbers, so |r| is exact.                      *)
(***************************************************************************)
BhRow(t, id, m, p, v) ==
    [time_myr |-> t, bh_id |-> id, mass_msun |-> m,
     x |-> p[1], y |-> p[2], z |-> p[3], vx |-> v[1], vy |-> v[2], vz |-> v[3]]
NsRow(t, id, m, p, v) ==
    [time_myr |-> t, ns_id |-> id, mass_msun |-> m,
     x |-> p[1], y |-> p[2], z |-> p[3], vx |-> v[1], vy |-> v[2], vz |-> v[3]]
ExchangeRow(t, a, b, c, d) ==
    [type |-> "EXCHANGE", time |-> t, id1 |-> a, id2 |-> b, id3 |-> c, id4 |-> d]
\* a MERGE row has no id3/id4 columns: parseInt gives NaN, which no code
\* path reads for a MERGE; the fields are kept so that events have one shape
MergeRow(t, a, b) ==
    [type |-> "MERGE", time |-> t, id1 |-> a, id2 |-> b, id3 |-> 0, id4 |-> 0]

\* the sampled epochs of the simulation, and how many of them are loaded
SampleTimes == <<0, 50, 100, 150, 200>>
NumSteps == 4
LastTime == SampleTimes[Min2(NumSteps, Len(SampleTimes))]

AllBhRows ==
    << BhRow(0,   1, 400, <<1, 0, 0>>, <<0, 1, 0>>),
       BhRow(0,   2, 200, <<0, 0, 0>>, <<0, -1, 0>>),
       BhRow(0,   3, 300, <<5, 0, 0>>, <<-3, 0, 0>>),
       BhRow(50,  1, 400, <<1, 0, 0>>, <<0, 1, 0>>),
       BhRow(50,  2, 200, <<0, 0, 0>>, <<0, -1, 0>>),
       BhRow(50,  3, 300, <<3, 0, 0>>, <<-3, 0, 0>>),
       BhRow(100, 3, 300, <<0, 0, 0>>, <<0, -1, 0>>),
       BhRow(100, 1, 400, <<1, 0, 0>>, <<0, 1, 0>>),
       BhRow(100, 2, 200, <<1, 4, 0>>, <<0, 2, 0>>),
       BhRow(150, 1, 600, <<1, 0, 0>>, <<1, 1, 0>>),
       BhRow(150, 3, 300, <<1, 0, 0>>, <<0, -1, 0>>),
       BhRow(200, 3, 600, <<2, 2, 0>>, <<1, 0, 0>>),
       BhRow(200, 2, 300, <<9, 9, 0>>, <<0, 2, 0>>) >>
AllNsRows ==
    << NsRow(0,   7, 2, <<0, 0, 3>>, <<0, 0, 0>>),
       NsRow(50,  7, 2, <<0, 0, 3>>, <<0, 0, 0>>),
       NsRow(50,  8, 2, <<0, 3, 0>>, <<1, 0, 0>>),
       NsRow(100, 8, 2, <<0, 3, 0>>, <<1, 0, 0>>),
       NsRow(200, 7, 2, <<0, 0, 3>>, <<0, 0, 0>>) >>
BhCsv == SelectSeq(AllBhRows, LAMBDA r : r.time_myr <= LastTime)
NsCsv == SelectSeq(AllNsRows, LAMBDA r : r.time_myr <= LastTime)
EventCsv ==
    << ExchangeRow(100, 1, 2, 1, 3),
       ExchangeRow(100, 1, 2, 2, 1),
       MergeRow(100, 1, 2),
       MergeRow(50, 2, 9),
       MergeRow(50, 3, 2),
       MergeRow(250, 1, 3),
       MergeRow(-50, 2, 3) >>

\* what the user can type into the highlight and mass inputs
HighlightInputs == {2}
MassInputs == {<<Null, Null>>, <<Some(100), Some(400)>>}

(***************************************************************************)
(* The state: the module-level variables of the script, the DOM values it  *)
(* reads back, and the THREE scene.                                        *)
(***************************************************************************)
VARIABLES
    variant,            \* which script runs: "P0", "M1" or "M2"
    timeData,           \* Map time -> rows   (a function on the loaded times)
    nsData,             \* Map time -> rows
    timeKeys,           \* sorted sampled times
    interactionEvents,  \* parsed event catalogue
    eventOptions,       \* indices offered by #interaction-event-select
    sliderValue,        \* #time-slider .value
    timeLabel,          \* the time shown in #time-label (Null before any update)
    isPlaying, playLabel, frameCount, framesPerUpdate,
    selectedEvent, highlightedBhId, massFilterMin, massFilterMax,
    useComFrame, showSpinVectors,
    heap,               \* handle -> scene object
    scene,              \* handles in the scene graph
    bhObjects, nsObjects, ellipseObjects,   \* Map key -> handle
    eventVectors,       \* array of handles
    cubeFrame,          \* handle of the reference cube
    isCameraTracking,
    cameraGoalTarget,   \* the point the last update moved cameraTargetGoal towards
    controlsTarget,     \* "rest", or "goal" once a frame has moved controls.target towards cameraTargetGoal
    xrPresenting,       \* renderer.xr.isPresenting
    loaded,             \* which start-up steps have completed
    primaryBhValue,     \* #primary-bh-select .value (second script of main.js)
    interactionMap,     \* Map id -> ids it shares an event row with
    historicalPartners,
    leaked,             \* history: what was dropped while it still owned GPU resources
    updated             \* history: an update ran to its end on the tables now loaded

vars == <<variant, timeData, nsData, timeKeys, interactionEvents, eventOptions,
          sliderValue, timeLabel, isPlaying, playLabel, frameCount, framesPerUpdate,
          selectedEvent, highlightedBhId, massFilterMin, massFilterMax,
          useComFrame, showSpinVectors, heap, scene, bhObjects, nsObjects,
          ellipseObjects, eventVectors, cubeFrame, isCameraTracking, cameraGoalTarget,
          controlsTarget, xrPresenting,
          loaded, primaryBhValue, interactionMap, historicalPartners, leaked, updated>>

\* the state as one record, so that a handler is a composition of functions
World ==
    [variant |-> variant, timeData |-> timeData, nsData |-> nsData, timeKeys |-> timeKeys,
     interactionEvents |-> interactionEvents, eventOptions |-> eventOptions,
     sliderValue |-> sliderValue, timeLabel |-> timeLabel, isPlaying |-> isPlaying,
     playLabel |-> playLabel, frameCount |-> frameCount, framesPerUpdate |-> framesPerUpdate,
     selectedEvent |-> selectedEvent, highlightedBhId |-> highlightedBhId,
     massFilterMin |-> massFilterMin, massFilterMax |-> massFilterMax,
     useComFrame |-> useComFrame, showSpinVectors |-> showSpinVectors,
     heap |-> heap, scene |-> scene, bhObjects |-> bhObjects, nsObjects |-> nsObjects,
     ellipseObjects |-> ellipseObjects, eventVectors |-> eventVectors,
     cubeFrame |-> cubeFrame, isCameraTracking |-> isCameraTracking,
     cameraGoalTarget |-> cameraGoalTarget, controlsTarget |-> controlsTarget,
     xrPresenting |-> xrPresenting, loaded |-> loaded,
     primaryBhValue |-> primaryBhValue, interactionMap |-> interactionMap,
     historicalPartners |-> historicalPartners, leaked |-> leaked, updated |-> updated,
     \* set by a handler at the statement that raises a TypeError (a property
     \* read on undefined); the statements after it do not run
     raised |-> FALSE]

(***************************************************************************)
(* Scene objects.  resources = what the object owns and has not disposed:  *)
(* a Mesh, Line or LineSegments owns obj.geometry and obj.material; an     *)
(* ArrowHelper is an Object3D without geometry/material properties of its  *)
(* own, whose line and cone children each own a material.                  *)
(***************************************************************************)
OWN_PROPS == {"geometry", "material"}
ARROW_PROPS == {"line.material", "cone.material"}
SceneObject(type, kind, id, color, opacity, position) ==
    [type |-> type, kind |-> kind, id |-> id, color |-> color, opacity |-> opacity,
     position |-> position, scale |-> 1, visible |-> TRUE,
     resources |-> IF type = "ArrowHelper" THEN ARROW_PROPS ELSE OWN_PROPS,
     dir |-> Zero3, len |-> NoLength, geom |-> <<>>, data |-> <<>>, spinParameterA |-> Null,
     \* history: created by the update that ran last
     fresh |-> type \in {"ArrowHelper", "Line"}]

\* the handle a constructor returns; the heap is 1..n throughout an update
NewHandle(w) == Cardinality(DOMAIN w.heap) + 1
HeapPut(w, h, obj) == [w EXCEPT !.heap = (h :> obj) @@ w.heap]
SceneAdd(w, h) == [w EXCEPT !.scene = @ \cup {h}]
SceneRemove(w, h) == [w EXCEPT !.scene = @ \ {h}]
MapSet(m, k, h) == (k :> h) @@ m
MapDelete(m, k) == Table([x \in (DOMAIN m) \ {k} |-> m[x]])
EmptyMap == <<>>

\* handles no collection and no scene refers to are garbage
Tracked(w) ==
    Range(w.bhObjects) \cup Range(w.nsObjects) \cup Range(w.ellipseObjects)
        \cup Range(w.eventVectors) \cup {w.cubeFrame}
\* Handles are opaque: after dropping the garbage the live objects are
\* renumbered in a fixed order (cube, black holes by id, neutron stars by id,
\* ellipses by key, arrows by index, then objects only the scene holds)
KeyOf(m, h) == CHOOSE k \in DOMAIN m : m[k] = h
HandleRank(w, h) ==
    IF h = w.cubeFrame THEN 0
    ELSE IF h \in Range(w.bhObjects) THEN 1000 + KeyOf(w.bhObjects, h)
    ELSE IF h \in Range(w.nsObjects) THEN 2000 + KeyOf(w.nsObjects, h)
    ELSE IF h \in Range(w.ellipseObjects)
         THEN 3000000 + (KeyOf(w.ellipseObjects, h)[1] * 100 + KeyOf(w.ellipseObjects, h)[2]) * 10
                      + KeyOf(w.ellipseObjects, h)[3]
    ELSE IF h \in Range(w.eventVectors) THEN 4000000 + KeyOf(w.eventVectors, h)
    ELSE 5000000 + h
RenameMap(m, ren) == Table([k \in DOMAIN m |-> ren[m[k]]])
Rename(w, live, ren) ==
    [w EXCEPT !.leaked = @ \cup {[type |-> w.heap[h].type, owns |-> w.heap[h].resources] :
                                    h \in {g \in (DOMAIN w.heap) \ live : w.heap[g].resources # {}}},
              !.heap = Table([i \in 1..Cardinality(live) |-> w.heap[CHOOSE h \in live : ren[h] = i]]),
              !.scene = {ren[h] : h \in w.scene},
              !.bhObjects = RenameMap(w.bhObjects, ren),
              !.nsObjects = RenameMap(w.nsObjects, ren),
              !.ellipseObjects = RenameMap(w.ellipseObjects, ren),
              !.eventVectors = RenameMap(w.eventVectors, ren),
              !.cubeFrame = ren[w.cubeFrame]]
RenameBy(w, live, rank) ==
    Rename(w, live, Table([h \in live |-> Cardinality({g \in live : rank[g] < rank[h]}) + 1]))
Collect(w) ==
    RenameBy(w, (DOMAIN w.heap) \cap (Tracked(w) \cup w.scene),
             Table([h \in (DOMAIN w.heap) \cap (Tracked(w) \cup w.scene) |-> HandleRank(w, h)]))

\* obj.geometry and obj.material are disposed where the object has them
cleanup(w, h) == SceneRemove([w EXCEPT !.heap[h].resources = @ \ OWN_PROPS], h)

(***************************************************************************)
(* part_000: drawing helpers.                                              *)
(***************************************************************************)
velScaleMultiplier == 1
spinScaleMultiplier == 1
particleSizeMultiplier == 1
\* the threshold 1e-6 of drawArrow, as 1 / ARROW_MIN_DEN
ARROW_MIN_DEN == 1000000

RowPos(b) == <<b.x, b.y, b.z>>
RowVel(b) == <<b.vx, b.vy, b.vz>>
\* a direction: the vector divided by the gcd of its components
Direction(v) ==
    IF v = Zero3 THEN v
    ELSE <<v[1] \div Gcd(Gcd(Abs(v[1]), Abs(v[2])), Abs(v[3])),
           v[2] \div Gcd(Gcd(Abs(v[1]), Abs(v[2])), Abs(v[3])),
           v[3] \div Gcd(Gcd(Abs(v[1]), Abs(v[2])), Abs(v[3]))>>
\* l <= 1e-6 for l = (num/den) * sqrt(sqrtOf)
TooShort(l) ==
    \/ l.num = 0
    \/ l.sqrtOf = 0
    \/ l.num * ISqrt(l.sqrtOf) <= l.den \div ARROW_MIN_DEN
\* |v| * k for a rational vector v = n/d
SpeedTimes(v, k) == Length(k, v.d, LenSq(v.n))
\* the sum divided by twice the first mass
MassMean_first(a, m1, b, m2) == RVec(VAdd(VScale(a, m1), VScale(b, m2)), m1 + m1)
\* the mass-weighted mean of two vectors
MassMean(a, m1, b, m2) == RVec(VAdd(VScale(a, m1), VScale(b, m2)), m1 + m2)
\* SPIN_VECTOR_SCALE * spinScaleMultiplier * PSEUDO_SPIN_PARAMETER_A * m * m
SpinLength(m) ==
    Length(SPIN_VECTOR_SCALE.num * spinScaleMultiplier * PSEUDO_SPIN_PARAMETER_A.num * m * m,
           SPIN_VECTOR_SCALE.den * PSEUDO_SPIN_PARAMETER_A.den, 1)

\* data.find(b => b.bh_id === id)
FindBh(data, id) == Find(data, LAMBDA b : b.bh_id = id)

\* scene.add(a); eventVectors.push(a)
PushArrow(w, h, a) == [SceneAdd(HeapPut(w, h, a), h) EXCEPT !.eventVectors = Append(@, h)]
\* kind and id say which call drew the arrow; the tabulated values hold no NaN
drawArrow(w, p, d, l, c, kind, id) ==
    IF TooShort(l) THEN w
    ELSE PushArrow(w, NewHandle(w), [SceneObject("ArrowHelper", kind, id, c, OPACITY_FULL, p)
                                         EXCEPT !.dir = Direction(d), !.len = l])

\* drawVel without its test of d: reading d.vx of undefined raises
drawVelOf_unguarded(w, id, d, com, col, sc, kind) ==
    IF IsNull(d) THEN [w EXCEPT !.raised = TRUE]
    ELSE drawArrow(w, RSub(RInt(RowPos(Val(d))), com), RowVel(Val(d)),
                   SpeedTimes(RInt(RowVel(Val(d))), sc * velScaleMultiplier), col, kind, <<id>>)
\* drawVel once data.find has answered d
drawVelOf(w, id, d, com, col, sc, kind) ==
    IF IsNull(d) THEN w
    ELSE drawArrow(w, RSub(RInt(RowPos(Val(d))), com), RowVel(Val(d)),
                   SpeedTimes(RInt(RowVel(Val(d))), sc * velScaleMultiplier), col, kind, <<id>>)
drawVel(w, id, data, com, col, sc, kind) == drawVelOf(w, id, FindBh(data, id), com, col, sc, kind)

\* en = 0.5 |v|^2 - G M / |r| < 0; with |r| = 0 the quotient is +Infinity
EnergyNegative(relR, relV, M) ==
    IF LenSq(relR) = 0 THEN TRUE
    ELSE LenSq(relV) * ISqrt(LenSq(relR)) * G_DEN < 2 * G_NUM * M
EccentricityBelowOne_any(relR, relV, M) == TRUE
\* e = |(v x h)/(G M) - r/|r|| < 1.  As (v x h).r = |h|^2 this is
\* |v x h|^2 |r| < 2 |h|^2 G M; with |r| = 0 every term is 0 and e = 0
EccentricityBelowOne(relR, relV, M) ==
    IF LenSq(relR) = 0 THEN TRUE
    ELSE LenSq(Cross(relV, Cross(relR, relV))) * ISqrt(LenSq(relR)) * G_DEN
             < 2 * LenSq(Cross(relR, relV)) * G_NUM * M
\* a = -G M / (2 en) = G M |r| / (2 G M - |v|^2 |r|); with |r| = 0, en is
\* -Infinity and a = 0
semiMajor(relR, relV, M) ==
    IF LenSq(relR) = 0 THEN Fraction(0, 1)
    ELSE Fraction(G_NUM * M * ISqrt(LenSq(relR)),
                  2 * G_NUM * M - LenSq(relV) * ISqrt(LenSq(relR)) * G_DEN)
\* 1 - e * e, the square of b / a, as the two factors of
\* (2 - |v|^2 |r| / (G M)) * (|h|^2 / (|r| G M)); with |r| = 0, e = 0
oneMinusESq(relR, relV, M) ==
    IF LenSq(relR) = 0 THEN <<Fraction(1, 1), Fraction(1, 1)>>
    ELSE <<Fraction(2 * G_NUM * M - LenSq(relV) * ISqrt(LenSq(relR)) * G_DEN, G_NUM * M),
           FracMul(Fraction(LenSq(Cross(relR, relV)), ISqrt(LenSq(relR))),
                   Fraction(G_DEN, G_NUM * M))>>
\* en < 0 and e < 1 for the rows b1, b2
IsBound(b1, b2) ==
    /\ EnergyNegative(VSub(RowPos(b1), RowPos(b2)), VSub(RowVel(b1), RowVel(b2)),
                      b1.mass_msun + b2.mass_msun)
    /\ EccentricityBelowOne(VSub(RowPos(b1), RowPos(b2)), VSub(RowVel(b1), RowVel(b2)),
                            b1.mass_msun + b2.mass_msun)

\* scene.add(l); ellipseObjects.set(key, l)
PutEllipse(w, h, key, l) ==
    [SceneAdd(HeapPut(w, h, l), h) EXCEPT !.ellipseObjects = MapSet(@, key, h)]
\* one ellipse of the pair (b1, b2): semi-axes a * s and a * sqrt(bb) * s with
\* s = sn / (m1 + m2), centred on the pair's centre of mass
addEllipse(w, key, b1, b2, sn, com, col) ==
    PutEllipse(w, NewHandle(w), key,
               [SceneObject("Line", "ellipse", key, col, OPACITY_FULL,
                            RSub(MassMean(RowPos(b1), b1.mass_msun, RowPos(b2), b2.mass_msun), com))
                    EXCEPT !.geom = <<[s |-> Fraction(sn, b1.mass_msun + b2.mass_msun),
                                       a |-> semiMajor(VSub(RowPos(b1), RowPos(b2)),
                                                       VSub(RowVel(b1), RowVel(b2)),
                                                       b1.mass_msun + b2.mass_msun),
                                       bb |-> oneMinusESq(VSub(RowPos(b1), RowPos(b2)),
                                                          VSub(RowVel(b1), RowVel(b2)),
                                                          b1.mass_msun + b2.mass_msun)]>>])
\* drawOrbit once data.find has answered b1 and b2
drawOrbitOf(w, id1, id2, b1, b2, com, col) ==
    IF IsNull(b1) \/ IsNull(b2) THEN w
    ELSE IF IsBound(Val(b1), Val(b2))
         THEN addEllipse(addEllipse(w, <<id1, id2, 0>>, Val(b1), Val(b2), Val(b2).mass_msun, com, col),
                         <<id1, id2, 1>>, Val(b1), Val(b2), Val(b1).mass_msun, com, col)
         ELSE w
\* the ellipse of the first body alone
drawOrbit_single(w, id1, id2, data, com, col) ==
    IF IsNull(FindBh(data, id1)) \/ IsNull(FindBh(data, id2)) THEN w
    ELSE IF IsBound(Val(FindBh(data, id1)), Val(FindBh(data, id2)))
         THEN addEllipse(w, <<id1, id2, 0>>, Val(FindBh(data, id1)), Val(FindBh(data, id2)),
                         Val(FindBh(data, id2)).mass_msun, com, col)
         ELSE w
drawOrbit(w, id1, id2, data, com, col) ==
    drawOrbitOf(w, id1, id2, FindBh(data, id1), FindBh(data, id2), com, col)

\* bhObjects.forEach((s, id) => ...): Paint gives the sphere after the callback
BhForEach(w, Paint(_, _)) ==
    [w EXCEPT !.heap =
        Table([h \in DOMAIN w.heap |->
                  IF h \in Range(w.bhObjects) THEN Paint(w.heap[h], KeyOf(w.bhObjects, h))
                  ELSE w.heap[h]])]

(***************************************************************************)
(* part_000: the event handlers.                                           *)
(***************************************************************************)
interloperOf(e) == IF e.id3 = e.id1 \/ e.id3 = e.id2 THEN e.id4 ELSE e.id3
ejectedOf(e) == IF e.id1 = e.id3 \/ e.id1 = e.id4 THEN e.id2 ELSE e.id1

\* the closure drawComVel of handleExchangeEvent, and lines 192-199 of
\* handleMergeEvent: the arrow of the pair's centre-of-mass velocity
drawComVelOf(w, i1, i2, b1, b2, com) ==
    IF IsNull(b1) \/ IsNull(b2) THEN w
    ELSE drawArrow(w,
                   RSub(MassMean(RowPos(Val(b1)), Val(b1).mass_msun,
                                 RowPos(Val(b2)), Val(b2).mass_msun), com),
                   MassMean(RowVel(Val(b1)), Val(b1).mass_msun,
                            RowVel(Val(b2)), Val(b2).mass_msun).n,
                   SpeedTimes(MassMean(RowVel(Val(b1)), Val(b1).mass_msun,
                                       RowVel(Val(b2)), Val(b2).mass_msun),
                              VEL_ARROW_SCALE * velScaleMultiplier),
                   COM_VELOCITY_COLOR, "comVel", <<i1, i2>>)
drawComVel(w, i1, i2, bhData, com) ==
    drawComVelOf(w, i1, i2, FindBh(bhData, i1), FindBh(bhData, i2), com)

exchangePaint(e, s, id) ==
    IF id \notin {e.id1, e.id2, e.id3, e.id4}
    THEN [s EXCEPT !.opacity = OPACITY_DIM, !.color = DEFAULT_COLOR]
    ELSE [s EXCEPT !.opacity = OPACITY_FULL,
                   !.color = IF id \in {e.id1, e.id2} THEN BINARY_PARTICLE_COLOR
                             ELSE IF id = interloperOf(e) THEN INTERLOPER_PARTICLE_COLOR
                             ELSE DEFAULT_COLOR]

exchangePhase_late(w, e, time, bhData, com) ==
    IF time <= e.time
    THEN drawVel(drawComVel(drawOrbit(w, e.id1, e.id2, bhData, com, PRE_EXCHANGE_ORBIT_COLOR),
                            e.id1, e.id2, bhData, com),
                 interloperOf(e), bhData, com, VECTOR_COLOR, VEL_ARROW_SCALE, "interloperVel")
    ELSE drawVel(drawComVel(drawOrbit(w, e.id3, e.id4, bhData, com, POST_EVENT_COLOR),
                            e.id3, e.id4, bhData, com),
                 ejectedOf(e), bhData, com, VECTOR_COLOR, VEL_ARROW_SCALE, "ejectedVel")
\* lines 165-173: the phase of the exchange
exchangePhase(w, e, time, bhData, com) ==
    IF time < e.time
    THEN drawVel(drawComVel(drawOrbit(w, e.id1, e.id2, bhData, com, PRE_EXCHANGE_ORBIT_COLOR),
                            e.id1, e.id2, bhData, com),
                 interloperOf(e), bhData, com, VECTOR_COLOR, VEL_ARROW_SCALE, "interloperVel")
    ELSE drawVel(drawComVel(drawOrbit(w, e.id3, e.id4, bhData, com, POST_EVENT_COLOR),
                            e.id3, e.id4, bhData, com),
                 ejectedOf(e), bhData, com, VECTOR_COLOR, VEL_ARROW_SCALE, "ejectedVel")
handleExchangeEvent(w, time, bhData, com) ==
    exchangePhase(BhForEach(w, LAMBDA s, id : exchangePaint(Val(w.selectedEvent), s, id)),
                  Val(w.selectedEvent), time, bhData, com)

\* rid of handleMergeEvent: the first progenitor id present in the timestep
remnantOf(e, bhData) ==
    IF e.id1 \in {bhData[i].bh_id : i \in DOMAIN bhData} THEN Some(e.id1)
    ELSE IF e.id2 \in {bhData[i].bh_id : i \in DOMAIN bhData} THEN Some(e.id2) ELSE Null

mergePaint(e, rid, time, s, id) ==
    IF id \notin ({e.id1, e.id2} \cup Range(rid))
    THEN [s EXCEPT !.opacity = OPACITY_DIM]
    ELSE IF time < e.time
         THEN IF id \in {e.id1, e.id2}
              THEN [s EXCEPT !.opacity = OPACITY_FULL, !.color = BINARY_PARTICLE_COLOR]
              ELSE [s EXCEPT !.opacity = OPACITY_FULL]
         ELSE IF rid = Some(id)
              THEN [s EXCEPT !.opacity = OPACITY_FULL, !.color = POST_EVENT_COLOR]
              ELSE [s EXCEPT !.opacity = OPACITY_DIM]

\* timeKeys[timeKeys.findIndex(t => t >= et) - 1]; undefined outside the array
IndexOrNull(keys, i) == IF i >= 0 /\ i < Len(keys) THEN Some(keys[i + 1]) ELSE Null
preMergeTime(keys, et) == IndexOrNull(keys, FindIndex(keys, LAMBDA t : t >= et) - 1)
\* a number in a condition: undefined and 0 are false
Truthy(n) == ~IsNull(n) /\ Val(n) # 0

\* r x v of the rows b1, b2
OrbitalAxis(b1, b2) == Cross(VSub(RowPos(b1), RowPos(b2)), VSub(RowVel(b1), RowVel(b2)))
\* lines 200-204: the progenitors' spin arrows
spinArrows(w, e, b1, b2, com) ==
    IF w.showSpinVectors
    THEN drawArrow(drawArrow(w, RSub(RInt(RowPos(b1)), com), OrbitalAxis(b1, b2),
                             SpinLength(b1.mass_msun), SPIN_VECTOR_COLOR, "spin", <<e.id1>>),
                   RSub(RInt(RowPos(b2)), com), OrbitalAxis(b1, b2),
                   SpinLength(b2.mass_msun), SPIN_VECTOR_COLOR, "spin", <<e.id2>>)
    ELSE w
mergePreVectorsOf(w, e, b1, b2, bhData, com) ==
    IF IsNull(b1) \/ IsNull(b2) THEN w
    ELSE spinArrows(drawComVel(w, e.id1, e.id2, bhData, com), e, Val(b1), Val(b2), com)
mergePreVectors(w, e, bhData, com) ==
    mergePreVectorsOf(w, e, FindBh(bhData, e.id1), FindBh(bhData, e.id2), bhData, com)

\* lines 213-221: the merged spin arrow at the remnant
mergeSpinArrow(w, rid, rd, b1, b2, com) ==
    IF w.showSpinVectors
    THEN drawArrow(w, RSub(RInt(RowPos(rd)), com), OrbitalAxis(b1, b2),
                   SpinLength(rd.mass_msun), MERGE_SPIN_COLOR, "mergeSpin", <<rid>>)
    ELSE w
mergePostVectorsOf(w, rid, rd, b1, b2, com) ==
    IF IsNull(rd) \/ IsNull(b1) \/ IsNull(b2) THEN w
    ELSE mergeSpinArrow(drawArrow(w, RSub(RInt(RowPos(Val(rd))), com), RowVel(Val(rd)),
                                  SpeedTimes(RInt(RowVel(Val(rd))),
                                             VEL_ARROW_SCALE * velScaleMultiplier),
                                  REMNANT_VEL_COLOR, "remnantVel", <<rid>>),
                        rid, Val(rd), Val(b1), Val(b2), com)
mergePostVectors(w, e, rid, preT, bhData, com) ==
    IF preT \notin DOMAIN w.timeData THEN [w EXCEPT !.raised = TRUE]
    ELSE mergePostVectorsOf(w, rid, FindBh(bhData, rid), FindBh(w.timeData[preT], e.id1),
                            FindBh(w.timeData[preT], e.id2), com)

\* lines 188-224: the phase of the merger
mergePhase(w, e, rid, preT, time, bhData, com) ==
    IF time < e.time
    THEN mergePreVectors(drawOrbit(w, e.id1, e.id2, bhData, com, PRE_EXCHANGE_ORBIT_COLOR),
                         e, bhData, com)
    ELSE IF ~IsNull(rid) /\ Truthy(preT)
         THEN mergePostVectors(w, e, Val(rid), Val(preT), bhData, com)
         ELSE w
handleMergeEvent(w, time, bhData, com) ==
    mergePhase(BhForEach(w, LAMBDA s, id : mergePaint(Val(w.selectedEvent),
                                                      remnantOf(Val(w.selectedEvent), bhData),
                                                      time, s, id)),
               Val(w.selectedEvent), remnantOf(Val(w.selectedEvent), bhData),
               preMergeTime(w.timeKeys, Val(w.selectedEvent).time), time, bhData, com)

(***************************************************************************)
(* part_000: updateBlackHoles and updateNS.                                *)
(***************************************************************************)
nsVisibleChecked == TRUE

\* collection.forEach(cleanup)
cleanupAll(w, handles) == ForEach(cleanup, w, SortedSeq(handles))

\* nsData.get(t) || []
NsRowsAt(w, t) == IF t \in DOMAIN w.nsData THEN w.nsData[t] ELSE <<>>

\* lines 234-239: the mass-weighted mean position of the timestep's rows, or
\* the zero vector
comAdd(acc, r) ==
    IF r.mass_msun # 0
    THEN [tm |-> acc.tm + r.mass_msun, sum |-> VAdd(acc.sum, VScale(RowPos(r), r.mass_msun))]
    ELSE acc
comDivide(tot) == IF tot.tm > 0 THEN RVec(tot.sum, tot.tm) ELSE RInt(tot.sum)
comOf(w, time, bhs) ==
    IF w.useComFrame
    THEN comDivide(ForEach(comAdd, [tm |-> 0, sum |-> Zero3], bhs \o NsRowsAt(w, time)))
    ELSE RZero

\* map.forEach((o, id) => { if (!ids.has(id)) { cleanup(o); map.delete(id); } })
dropMissing_keep(w, field, ids) == w
dropOne(w, field, id) == [cleanup(w, w[field][id]) EXCEPT ![field] = MapDelete(@, id)]
dropMissing(w, field, ids) ==
    ForEach(LAMBDA acc, id : dropOne(acc, field, id), w, SortedSeq((DOMAIN w[field]) \ ids))

\* a new sphere joins the map and the scene
PutSphere(w, field, id, h, s) ==
    [SceneAdd(HeapPut(w, h, s), h) EXCEPT ![field] = MapSet(@, id, h)]
\* lines 244-248
bhSphere(w, bh) ==
    IF bh.bh_id \in DOMAIN w.bhObjects THEN w
    ELSE PutSphere(w, "bhObjects", bh.bh_id, NewHandle(w),
                   SceneObject("Mesh", "bh", <<bh.bh_id>>, BH_MATERIAL_COLOR, OPACITY_FULL, RZero))
\* lines 249-251
moveBh(w, h, bh, com) ==
    [w EXCEPT !.heap[h].data = <<bh>>,
              !.heap[h].position = RSub(RInt(RowPos(bh)), com),
              !.heap[h].scale = bh.mass_msun * particleSizeMultiplier]
placeBh(w, bh, com) == moveBh(bhSphere(w, bh), bhSphere(w, bh).bhObjects[bh.bh_id], bh, com)

\* lines 305-309
nsSphere(w, n) ==
    IF n.ns_id \in DOMAIN w.nsObjects THEN w
    ELSE PutSphere(w, "nsObjects", n.ns_id, NewHandle(w),
                   SceneObject("Mesh", "ns", <<n.ns_id>>, NS_MATERIAL_COLOR, OPACITY_FULL, RZero))
\* moveNs with the raw position of the record
moveNs_raw(w, h, n, com) ==
    [w EXCEPT !.heap[h].data = <<n>>,
              !.heap[h].position = RInt(RowPos(n)),
              !.heap[h].scale = n.mass_msun * particleSizeMultiplier,
              !.heap[h].visible = nsVisibleChecked]
\* lines 310-312
moveNs(w, h, n, com) ==
    [w EXCEPT !.heap[h].data = <<n>>,
              !.heap[h].position = RSub(RInt(RowPos(n)), com),
              !.heap[h].scale = n.mass_msun * particleSizeMultiplier,
              !.heap[h].visible = nsVisibleChecked]
placeNs(w, n, com) == moveNs(nsSphere(w, n), nsSphere(w, n).nsObjects[n.ns_id], n, com)

RowIds(rows, field) == {rows[i][field] : i \in DOMAIN rows}
updateNS(w, t, com) ==
    ForEach(LAMBDA acc, n : placeNs(acc, n, com),
            dropMissing(w, "nsObjects", RowIds(NsRowsAt(w, t), "ns_id")),
            NsRowsAt(w, t))

\* lines 257-263: colouring with no event selected
filterPaint(w, s) ==
    [s EXCEPT !.opacity = OPACITY_FULL,
              !.color = IF w.highlightedBhId = Some(s.data[1].bh_id) THEN highlightColor
                        ELSE IF /\ ~IsNull(w.massFilterMin) /\ ~IsNull(w.massFilterMax)
                                /\ s.data[1].mass_msun >= Val(w.massFilterMin)
                                /\ s.data[1].mass_msun <= Val(w.massFilterMax)
                             THEN massRangeColor
                             ELSE DEFAULT_COLOR]
\* line 264
highlightVel(w, bhs, com) ==
    IF ~IsNull(w.highlightedBhId)
    THEN drawVel(w, Val(w.highlightedBhId), bhs, com, highlightColor, VEL_ARROW_SCALE,
                 "highlightVel")
    ELSE w
noEventVisuals(w, bhs, com) ==
    highlightVel(BhForEach(w, LAMBDA s, id : filterPaint(w, s)), bhs, com)

\* lines 253-265
eventVisuals(w, time, bhs, com) ==
    IF ~IsNull(w.selectedEvent)
    THEN IF Val(w.selectedEvent).type = "EXCHANGE" THEN handleExchangeEvent(w, time, bhs, com)
         ELSE IF Val(w.selectedEvent).type = "MERGE" THEN handleMergeEvent(w, time, bhs, com)
         ELSE w
    ELSE noEventVisuals(w, bhs, com)

\* |p| < SIMULATION_BOUNDS for a rational vector p
InBounds(p) == LenSq(p.n) < SIMULATION_BOUNDS * SIMULATION_BOUNDS * p.d * p.d
PositionOf(w, id) == w.heap[w.bhObjects[id]].position
\* the mean position of the spheres of ids (repetitions count) that are in bounds
MeanPosition(w, active) ==
    IF Len(active) > 0
    THEN Some(RDiv(ForEach(LAMBDA acc, id : RAdd(acc, PositionOf(w, id)), RZero, active),
                   Len(active)))
    ELSE Null
ActiveActors(w, ids) ==
    SelectSeq(ids, LAMBDA id : id \in DOMAIN w.bhObjects /\ InBounds(PositionOf(w, id)))
\* lines 267-273: tp
trackTarget(w) ==
    IF ~IsNull(w.highlightedBhId)
    THEN IF Val(w.highlightedBhId) \in DOMAIN w.bhObjects
         THEN Some(PositionOf(w, Val(w.highlightedBhId)))
         ELSE Null
    ELSE IF ~IsNull(w.selectedEvent)
         THEN MeanPosition(w, ActiveActors(w,
                  IF Val(w.selectedEvent).type = "EXCHANGE"
                  THEN <<Val(w.selectedEvent).id1, Val(w.selectedEvent).id2,
                         Val(w.selectedEvent).id3, Val(w.selectedEvent).id4>>
                  ELSE <<Val(w.selectedEvent).id1, Val(w.selectedEvent).id2>>))
         ELSE Null
\* cameraTargetGoal.lerp(tp || new THREE.Vector3(), 0.1): the lerp itself is
\* not modelled, only the point it moves towards
lerpTowards(w, tp) == [w EXCEPT !.cameraGoalTarget = IF IsNull(tp) THEN RZero ELSE Val(tp)]
\* trackCamera without the test of renderer.xr.isPresenting
trackCamera_desktop(w) == IF w.isCameraTracking THEN lerpTowards(w, trackTarget(w)) ELSE w
\* lines 266-275
trackCamera(w) ==
    IF w.isCameraTracking /\ ~w.xrPresenting THEN lerpTowards(w, trackTarget(w)) ELSE w

clearTransients_none(w) == w
\* the ellipses left where they are
clearEllipses_keep(w) == w
\* lines 232-233
clearEllipses(w) == [cleanupAll(w, Range(w.ellipseObjects)) EXCEPT !.ellipseObjects = EmptyMap]
clearTransients(w) ==
    clearEllipses([cleanupAll(w, Range(w.eventVectors)) EXCEPT !.eventVectors = <<>>])

\* lines 230-231, and the history field fresh
beginUpdate(w, idx, time) ==
    [w EXCEPT !.sliderValue = idx, !.timeLabel = Some(time),
              !.heap = Table([h \in DOMAIN @ |-> [@[h] EXCEPT !.fresh = FALSE]])]
\* cubeFrame.position.sub(com) in place of copy(com).negate()
moveCube_drift(w, com) == [w EXCEPT !.heap[w.cubeFrame].position = RSub(@, com)]
\* line 240
moveCube(w, com) == [w EXCEPT !.heap[w.cubeFrame].position = RNeg(com)]
\* lines 266-276, which run when the event handler has returned
afterVisuals(w, time, com) == IF w.raised THEN w ELSE updateNS(trackCamera(w), time, com)
\* lines 240-276, once com is known
updateFrom(w, time, bhs, com) ==
    afterVisuals(eventVisuals(
                     ForEach(LAMBDA acc, bh : placeBh(acc, bh, com),
                             dropMissing(moveCube(w, com), "bhObjects", RowIds(bhs, "bh_id")), bhs),
                     time, bhs, com),
                 time, com)
\* lines 232-276, once the transients are gone
updateCleared(w, time, bhs) == updateFrom(w, time, bhs, comOf(w, time, bhs))
\* timeData.get(time) is undefined: [...bhs] (line 237) or bhs.map (line 241) raises
rowsMissing(w) == [(IF w.useComFrame THEN w ELSE moveCube(w, RZero)) EXCEPT !.raised = TRUE]
updateBlackHoles(w, idx) ==
    IF idx >= Len(w.timeKeys) \/ idx < 0 THEN w
    ELSE IF w.timeKeys[idx + 1] \notin DOMAIN w.timeData
         THEN Collect(rowsMissing(clearTransients(beginUpdate(w, idx, w.timeKeys[idx + 1]))))
         ELSE Collect(updateCleared(clearTransients(beginUpdate(w, idx, w.timeKeys[idx + 1])),
                                    w.timeKeys[idx + 1], w.timeData[w.timeKeys[idx + 1]]))

(***************************************************************************)
(* main.js, first script (lines 1-883): configuration and helpers.         *)
(***************************************************************************)
\* a negative index passes `timeIndex >= timeKeys.length`: timeKeys[timeIndex]
\* is undefined, the range input takes its minimum 0 for the value below it
\* and undefined.toFixed raises a TypeError
noTimeAt(w) == [w EXCEPT !.sliderValue = 0, !.raised = TRUE]
\* SPIN_VECTOR_SCALE = 0.001 as a fraction
SPIN_VECTOR_SCALE_M1 == [num |-> 1, den |-> 1000]
DEFAULT_COLOR_M1 == 328965
BINARY_PARTICLE_COLOR_M1 == 65280
INTERLOPER_PARTICLE_COLOR_M1 == 16711680
HIGHLIGHT_COLOR == 16776960
PRE_EXCHANGE_ORBIT_COLOR_M1 == 65280
POST_EVENT_COLOR_M1 == 16711935
VECTOR_COLOR_M1 == 255
KICK_VECTOR_COLOR == 16711680
COM_VELOCITY_COLOR_M1 == 65535
SPIN_VECTOR_COLOR_M1 == 16711935
CUBE_FRAME_COLOR_M1 == 8947848
\* the neutron-star material: opacity 0.5, in tenths
NS_OPACITY_M1 == 5

cleanupObject(w, h) == SceneRemove([w EXCEPT !.heap[h].resources = @ \ OWN_PROPS], h)
\* cleanupArray(eventVectors)
cleanupArray(w) ==
    [ForEach(cleanupObject, w, SortedSeq(Range(w.eventVectors))) EXCEPT !.eventVectors = <<>>]
\* cleanupMap(ellipseObjects); spinRings and velocityVectors are never filled
cleanupMap(w) ==
    [ForEach(cleanupObject, w, SortedSeq(Range(w.ellipseObjects)))
         EXCEPT !.ellipseObjects = EmptyMap]

drawVector(w, origin, direction, length, color, kind, id) ==
    IF TooShort(length) THEN w
    ELSE PushArrow(w, NewHandle(w),
                   [SceneObject("ArrowHelper", kind, id, color, OPACITY_FULL, origin)
                        EXCEPT !.dir = Direction(direction), !.len = length])

\* drawVelocityVector once find has answered d; scale is the fraction sn / sd
drawVelocityVectorOf(w, id, d, color, sn, sd, kind) ==
    IF IsNull(d) \/ id \notin DOMAIN w.bhObjects THEN w
    ELSE IF LenSq(RowVel(Val(d))) > 0
         THEN drawVector(w, w.heap[w.bhObjects[id]].position, RowVel(Val(d)),
                         Length(sn, sd, LenSq(RowVel(Val(d)))), color, kind, <<id>>)
         ELSE w
\* bhId is Null for null / undefined
drawVelocityVector(w, bhId, bhData, color, sn, sd, kind) ==
    IF IsNull(bhId) THEN w
    ELSE drawVelocityVectorOf(w, Val(bhId), FindBh(bhData, Val(bhId)), color, sn, sd, kind)

(***************************************************************************)
(* drawArrow and drawVector on IEEE doubles.  parseFloat answers NaN for a *)
(* cell that is no number and Infinity for "Infinity" or 1e999, so a row   *)
(* can carry such velocities.  A double is [k, n]: k says finite, NaN or   *)
(* infinite, n is the value of a finite one.  A length is [k, l] with l    *)
(* the exact length of a finite one.                                       *)
(***************************************************************************)
FNum(n) == [k |-> "fin", n |-> n]
FNaN == [k |-> "nan", n |-> 0]
FInf == [k |-> "inf", n |-> 1]
isNaN(x) == x.k = "nan"
isFinite(x) == x.k = "fin"
FInts(v) == <<v[1].n, v[2].n, v[3].n>>
\* Vector3.length() * (sn / sd): NaN absorbs, then Infinity
FLength(v, sn, sd) ==
    IF \E i \in 1..3 : isNaN(v[i]) THEN [k |-> "nan", l |-> NoLength]
    ELSE IF \E i \in 1..3 : ~isFinite(v[i]) THEN [k |-> "inf", l |-> NoLength]
    ELSE [k |-> "fin", l |-> Length(sn, sd, LenSq(FInts(v)))]
\* l <= 1e-6: false for NaN and for Infinity
FTooShort(len) == len.k = "fin" /\ TooShort(len.l)
\* speed > 0: false for NaN
FPositive(len) == len.k = "inf" \/ (len.k = "fin" /\ len.l.num > 0 /\ len.l.sqrtOf > 0)
\* clone().normalize() is divideScalar(length() || 1): NaN || 1 is 1,
\* Infinity / Infinity is NaN, finite / Infinity is 0
FNormalize(d) ==
    IF FLength(d, 1, 1).k = "nan" THEN d
    ELSE IF FLength(d, 1, 1).k = "inf"
         THEN [i \in 1..3 |-> IF isFinite(d[i]) THEN FNum(0) ELSE FNaN]
         ELSE [i \in 1..3 |-> FNum(Direction(FInts(d))[i])]
\* part_000 lines 127-131
drawArrow_fp(w, p, d, l, c, kind, id) ==
    IF FTooShort(l) \/ isNaN(d[1]) THEN w
    ELSE PushArrow(w, NewHandle(w), [SceneObject("ArrowHelper", kind, id, c, OPACITY_FULL, p)
                                         EXCEPT !.dir = FNormalize(d), !.len = l])
\* part_000 lines 135-138: drawVel once data.find has answered the row at p with velocity v
drawVel_fp(w, id, p, v, com, col, sc, kind) ==
    drawArrow_fp(w, RSub(RInt(p), com), v, FLength(v, sc * velScaleMultiplier, 1), col, kind, <<id>>)
\* main.js lines 535-541; direction is an object, so !direction is false
drawVector_fp(w, origin, direction, length, color, kind, id) ==
    IF FTooShort(length) \/ isNaN(direction[1]) THEN w
    ELSE PushArrow(w, NewHandle(w),
                   [SceneObject("ArrowHelper", kind, id, color, OPACITY_FULL, origin)
                        EXCEPT !.dir = FNormalize(direction), !.len = length])
\* main.js lines 525-531: drawVelocityVector once the row and the sphere at origin are found
drawVelocityVector_fp(w, id, origin, velocity, color, sn, sd, kind) ==
    IF FPositive(FLength(velocity, 1, 1))
    THEN drawVector_fp(w, origin, velocity, FLength(velocity, sn, sd), color, kind, <<id>>)
    ELSE w

\* lines 544-551
newBHSphere(w, bh) ==
    IF bh.bh_id \in DOMAIN w.bhObjects THEN w
    ELSE PutSphere(w, "bhObjects", bh.bh_id, NewHandle(w),
                   SceneObject("Mesh", "bh", <<bh.bh_id>>, DEFAULT_COLOR_M1, OPACITY_FULL, RZero))
\* lines 552-557; scale in tenths of particleSizeMultiplier
resetBHSphere(w, h, bh, comOffset) ==
    [w EXCEPT !.heap[h].data = <<bh>>,
              !.heap[h].spinParameterA = Null,
              !.heap[h].position = RSub(RInt(RowPos(bh)), comOffset),
              !.heap[h].scale = 10,
              !.heap[h].color = DEFAULT_COLOR_M1,
              !.heap[h].visible = TRUE]
getOrCreateBHSphere(w, bh, comOffset) ==
    resetBHSphere(newBHSphere(w, bh), newBHSphere(w, bh).bhObjects[bh.bh_id], bh, comOffset)

\* a_rel > 0 && b_rel > 0 && isFinite(a_rel) && isFinite(b_rel)
axesPositive(a, bb) == a.num > 0 /\ a.den > 0 /\ bb[1].num > 0 /\ bb[2].num > 0
axesPositiveOf(b1, b2) ==
    axesPositive(semiMajor(VSub(RowPos(b1), RowPos(b2)), VSub(RowVel(b1), RowVel(b2)),
                           b1.mass_msun + b2.mass_msun),
                 oneMinusESq(VSub(RowPos(b1), RowPos(b2)), VSub(RowVel(b1), RowVel(b2)),
                             b1.mass_msun + b2.mass_msun))
\* lines 566-629 once find has answered bh1 and bh2; r_rel.length() === 0 draws nothing
drawIndividualOrbitsOf(w, lo, hi, bh1, bh2, color, comOffset) ==
    IF IsNull(bh1) \/ IsNull(bh2) THEN w
    ELSE IF RowPos(Val(bh1)) = RowPos(Val(bh2)) THEN w
    ELSE IF IsBound(Val(bh1), Val(bh2)) /\ axesPositiveOf(Val(bh1), Val(bh2))
         THEN addEllipse(addEllipse(w, <<lo, hi, 1>>, Val(bh1), Val(bh2), Val(bh2).mass_msun,
                                    comOffset, color),
                         <<lo, hi, 2>>, Val(bh1), Val(bh2), Val(bh1).mass_msun, comOffset, color)
         ELSE w
drawIndividualOrbitsForPair(w, bhId1, bhId2, allBhData, color, comOffset) ==
    drawIndividualOrbitsOf(w, Min2(bhId1, bhId2), Max2(bhId1, bhId2),
                           FindBh(allBhData, bhId1), FindBh(allBhData, bhId2), color, comOffset)

(***************************************************************************)
(* main.js, first script: the event handlers.                              *)
(***************************************************************************)
\* [...newBinaryIds].find(id => !originalBinaryIds.has(id)), and its mirror
interloperId(e) == Find(<<e.id3, e.id4>>, LAMBDA id : id \notin {e.id1, e.id2})
ejectedId(e) == Find(<<e.id1, e.id2>>, LAMBDA id : id \notin {e.id3, e.id4})

exchangePaint_M1(e, s, bhId) ==
    IF bhId \notin {e.id1, e.id2, e.id3, e.id4}
    THEN [s EXCEPT !.color = DEFAULT_COLOR_M1, !.opacity = OPACITY_DIM]
    ELSE [s EXCEPT !.opacity = OPACITY_FULL,
                   !.color = IF bhId \in {e.id1, e.id2} THEN BINARY_PARTICLE_COLOR_M1
                             ELSE IF Some(bhId) = interloperId(e) THEN INTERLOPER_PARTICLE_COLOR_M1
                             ELSE DEFAULT_COLOR_M1]

\* lines 391-397
exchangePhase_M1(w, e, time, bhData, comOffset) ==
    IF time < e.time
    THEN drawVelocityVector(
             drawIndividualOrbitsForPair(w, e.id1, e.id2, bhData,
                                         PRE_EXCHANGE_ORBIT_COLOR_M1, comOffset),
             interloperId(e), bhData, VECTOR_COLOR_M1, 1, 10, "interloperVel")
    ELSE drawVelocityVector(
             drawIndividualOrbitsForPair(w, e.id3, e.id4, bhData, POST_EVENT_COLOR_M1, comOffset),
             ejectedId(e), bhData, VECTOR_COLOR_M1, 1, 10, "ejectedVel")
handleExchangeEvent_M1(w, time, bhData, comOffset) ==
    exchangePhase_M1(BhForEach(w, LAMBDA s, id : exchangePaint_M1(Val(w.selectedEvent), s, id)),
                     Val(w.selectedEvent), time, bhData, comOffset)

\* remnantId of handleMergeEvent: looked for only from the event time on
remnantId(e, time, bhData) ==
    IF time >= e.time
    THEN IF e.id1 \in RowIds(bhData, "bh_id") THEN Some(e.id1)
         ELSE IF e.id2 \in RowIds(bhData, "bh_id") THEN Some(e.id2) ELSE Null
    ELSE Null

mergePaint_M1(e, rem, time, s, bhId) ==
    IF bhId \notin ({e.id1, e.id2} \cup Range(rem))
    THEN [s EXCEPT !.opacity = OPACITY_DIM]
    ELSE IF time < e.time
         THEN IF bhId \in {e.id1, e.id2}
              THEN [s EXCEPT !.opacity = OPACITY_FULL, !.color = BINARY_PARTICLE_COLOR_M1]
              ELSE [s EXCEPT !.opacity = OPACITY_FULL]
         ELSE IF rem = Some(bhId)
              THEN [s EXCEPT !.opacity = OPACITY_FULL, !.color = POST_EVENT_COLOR_M1]
              ELSE [s EXCEPT !.opacity = OPACITY_DIM]

\* SPIN_VECTOR_SCALE * PSEUDO_SPIN_PARAMETER_A * m * m
spinMag(m) ==
    Length(SPIN_VECTOR_SCALE_M1.num * PSEUDO_SPIN_PARAMETER_A.num * m * m,
           SPIN_VECTOR_SCALE_M1.den * PSEUDO_SPIN_PARAMETER_A.den, 1)

\* lines 437-459, for the rows b1, b2; comVel.length() * 0.5
mergePreVectorsOf_M1(w, e, b1, b2, comVel, comOffset) ==
    drawVector(
        drawVector(
            drawVector(w, RSub(MassMean(RowPos(b1), b1.mass_msun, RowPos(b2), b2.mass_msun),
                               comOffset),
                       comVel.n, Length(1, 2 * comVel.d, LenSq(comVel.n)),
                       COM_VELOCITY_COLOR_M1, "comVel", <<e.id1, e.id2>>),
            RSub(RInt(RowPos(b1)), comOffset), OrbitalAxis(b1, b2), spinMag(b1.mass_msun),
            SPIN_VECTOR_COLOR_M1, "spin", <<e.id1>>),
        RSub(RInt(RowPos(b2)), comOffset), OrbitalAxis(b1, b2), spinMag(b2.mass_msun),
        SPIN_VECTOR_COLOR_M1, "spin", <<e.id2>>)
\* lines 433-460
mergePreVectors_M1(w, e, bh1Data, bh2Data, comOffset) ==
    IF IsNull(bh1Data) \/ IsNull(bh2Data) THEN w
    ELSE mergePreVectorsOf_M1(w, e, Val(bh1Data), Val(bh2Data),
                              MassMean(RowVel(Val(bh1Data)), Val(bh1Data).mass_msun,
                                       RowVel(Val(bh2Data)), Val(bh2Data).mass_msun),
                              comOffset)

\* |S_final| = s1_mag + s2_mag + SPIN_VECTOR_SCALE * 0.1 * mu * |r x v| as a
\* fraction; 0 when r x v = 0.  The tables keep |r x v| whole
finalSpin(m1, m2, axis) ==
    IF axis = Zero3 THEN [num |-> 0, den |-> 1]
    ELSE FracAdd(Fraction(6 * (m1 * m1 + m2 * m2), 10000),
                 Fraction(m1 * m2 * ISqrt(LenSq(axis)), 10000 * (m1 + m2)))
\* a_final = min(1, |S_final| / (SPIN_VECTOR_SCALE * M_final^2)), as a fraction
finalSpinParameter(S, M_final) ==
    IF S.num * (1000 \div Gcd(S.den, 1000)) >= (S.den \div Gcd(S.den, 1000)) * M_final * M_final
    THEN [num |-> 1, den |-> 1]
    ELSE Fraction(S.num * (1000 \div Gcd(S.den, 1000)),
                  (S.den \div Gcd(S.den, 1000)) * M_final * M_final)
\* lines 506-509
setSpinParameter(w, rem, a) ==
    IF rem \in DOMAIN w.bhObjects
    THEN [w EXCEPT !.heap[w.bhObjects[rem]].spinParameterA = Some(a)]
    ELSE w
\* lines 477-509, for the rows b1, b2 before the merger and the remnant's row
mergeSpin_M1(w, rem, b1, b2, remnantData, S_final, comOffset) ==
    setSpinParameter(
        drawVector(w, RSub(RInt(RowPos(remnantData)), comOffset), OrbitalAxis(b1, b2),
                   Length(S_final.num, S_final.den, 1), SPIN_VECTOR_COLOR_M1, "mergeSpin", <<rem>>),
        rem, finalSpinParameter(S_final, remnantData.mass_msun))
\* lines 470-511
mergeSpinOf_M1(w, e, rem, bh1Data, bh2Data, remnantData, comOffset) ==
    IF IsNull(bh1Data) \/ IsNull(bh2Data) \/ IsNull(remnantData) THEN w
    ELSE mergeSpin_M1(w, rem, Val(bh1Data), Val(bh2Data), Val(remnantData),
                      finalSpin(Val(bh1Data).mass_msun, Val(bh2Data).mass_msun,
                                OrbitalAxis(Val(bh1Data), Val(bh2Data))),
                      comOffset)
\* lines 466-511
retroSpin_M1(w, e, rem, preMergeTimeKey, bhData, comOffset) ==
    IF ~Truthy(preMergeTimeKey) THEN w
    ELSE IF Val(preMergeTimeKey) \notin DOMAIN w.timeData THEN [w EXCEPT !.raised = TRUE]
    ELSE mergeSpinOf_M1(w, e, rem, FindBh(w.timeData[Val(preMergeTimeKey)], e.id1),
                        FindBh(w.timeData[Val(preMergeTimeKey)], e.id2),
                        FindBh(bhData, rem), comOffset)
\* lines 463-512
mergePostVectors_M1(w, e, rem, bhData, comOffset) ==
    retroSpin_M1(drawVelocityVector(w, Some(rem), bhData, KICK_VECTOR_COLOR, 1, 2, "kick"),
                 e, rem, preMergeTime(w.timeKeys, e.time), bhData, comOffset)

\* lines 429-513
mergePhase_M1(w, e, rem, time, bhData, comOffset) ==
    IF time < e.time
    THEN mergePreVectors_M1(
             drawIndividualOrbitsForPair(w, e.id1, e.id2, bhData,
                                         PRE_EXCHANGE_ORBIT_COLOR_M1, comOffset),
             e, FindBh(bhData, e.id1), FindBh(bhData, e.id2), comOffset)
    ELSE IF ~IsNull(rem) THEN mergePostVectors_M1(w, e, Val(rem), bhData, comOffset)
         ELSE w
handleMergeEvent_M1(w, time, bhData, comOffset) ==
    mergePhase_M1(BhForEach(w, LAMBDA s, id :
                                   mergePaint_M1(Val(w.selectedEvent),
                                                 remnantId(Val(w.selectedEvent), time, bhData),
                                                 time, s, id)),
                  Val(w.selectedEvent), remnantId(Val(w.selectedEvent), time, bhData),
                  time, bhData, comOffset)

(***************************************************************************)
(* main.js, first script: updateBlackHoles and updateNSObjects.            *)
(***************************************************************************)
\* for (const [id, obj] of map.entries()) if (!ids.has(id)) { cleanupObject; delete }
removeOne(w, field, id) == [cleanupObject(w, w[field][id]) EXCEPT ![field] = MapDelete(@, id)]
removeMissing(w, field, ids) ==
    ForEach(LAMBDA acc, id : removeOne(acc, field, id), w, SortedSeq((DOMAIN w[field]) \ ids))

\* lines 646-653
newNSSphere(w, ns) ==
    IF ns.ns_id \in DOMAIN w.nsObjects THEN w
    ELSE PutSphere(w, "nsObjects", ns.ns_id, NewHandle(w),
                   SceneObject("Mesh", "ns", <<ns.ns_id>>, NS_MATERIAL_COLOR, NS_OPACITY_M1, RZero))
\* lines 654-657; scale in tenths of particleSizeMultiplier: 0.7
moveNSSphere(w, h, ns, comOffset) ==
    [w EXCEPT !.heap[h].data = <<ns>>,
              !.heap[h].position = RSub(RInt(RowPos(ns)), comOffset),
              !.heap[h].scale = 7,
              !.heap[h].visible = nsVisibleChecked]
placeNSSphere(w, ns, comOffset) ==
    moveNSSphere(newNSSphere(w, ns), newNSSphere(w, ns).nsObjects[ns.ns_id], ns, comOffset)
updateNSObjects(w, time, comOffset) ==
    ForEach(LAMBDA acc, ns : placeNSSphere(acc, ns, comOffset),
            removeMissing(w, "nsObjects", RowIds(NsRowsAt(w, time), "ns_id")),
            NsRowsAt(w, time))

\* the ids of a list without repetitions, in order of first appearance (new Set)
Distinct(ids) ==
    ForEach(LAMBDA acc, id : IF id \in Range(acc) THEN acc ELSE Append(acc, id), <<>>, ids)

\* lines 323-338
actorIdsToTrack(e, time, bhData) ==
    IF e.type = "EXCHANGE" THEN <<e.id1, e.id2, e.id3, e.id4>>
    ELSE IF e.type = "MERGE"
         THEN IF time < e.time THEN <<e.id1, e.id2>> ELSE remnantId(e, time, bhData)
         ELSE <<>>
\* lines 311-354: targetPosition
trackTarget_M1(w, time, bhData) ==
    IF ~IsNull(w.highlightedBhId) /\ Val(w.highlightedBhId) \in DOMAIN w.bhObjects
    THEN Some(PositionOf(w, Val(w.highlightedBhId)))
    ELSE IF ~IsNull(w.selectedEvent)
         THEN MeanPosition(w, ActiveActors(w,
                  Distinct(actorIdsToTrack(Val(w.selectedEvent), time, bhData))))
         ELSE Null
\* lines 310-362
trackCamera_M1(w, time, bhData) ==
    IF w.isCameraTracking /\ ~w.xrPresenting
    THEN lerpTowards(w, trackTarget_M1(w, time, bhData))
    ELSE w

\* lines 300-306
applyHighlight(w) ==
    IF ~IsNull(w.highlightedBhId) /\ Val(w.highlightedBhId) \in DOMAIN w.bhObjects
    THEN [w EXCEPT !.heap[w.bhObjects[Val(w.highlightedBhId)]].color = HIGHLIGHT_COLOR,
                   !.heap[w.bhObjects[Val(w.highlightedBhId)]].opacity = OPACITY_FULL]
    ELSE w

resetPaint(s, id) == [s EXCEPT !.color = DEFAULT_COLOR_M1, !.opacity = OPACITY_FULL]
\* lines 285-297
eventVisuals_M1(w, time, bhData, comOffset) ==
    IF ~IsNull(w.selectedEvent)
    THEN IF Val(w.selectedEvent).type = "EXCHANGE"
         THEN handleExchangeEvent_M1(w, time, bhData, comOffset)
         ELSE IF Val(w.selectedEvent).type = "MERGE"
              THEN handleMergeEvent_M1(w, time, bhData, comOffset)
              ELSE w
    ELSE BhForEach(w, resetPaint)

\* lines 299-364, which run when the event handler has returned
afterVisuals_M1(w, time, bhData, comOffset) ==
    IF w.raised THEN w
    ELSE updateNSObjects(trackCamera_M1(applyHighlight(w), time, bhData), time, comOffset)
\* lines 265-364, once comOffset is known
updateFrom_M1(w, time, bhData, comOffset) ==
    afterVisuals_M1(eventVisuals_M1(
                        ForEach(LAMBDA acc, bh : getOrCreateBHSphere(acc, bh, comOffset),
                                cleanupMap(removeMissing(moveCube(w, comOffset), "bhObjects",
                                                         RowIds(bhData, "bh_id"))),
                                bhData),
                        time, bhData, comOffset),
                    time, bhData, comOffset)
\* lines 246-364, once the event vectors are gone
updateCleared_M1(w, time, bhData) == updateFrom_M1(w, time, bhData, comOf(w, time, bhData))
updateBlackHoles_M1(w, timeIndex) ==
    IF timeIndex >= Len(w.timeKeys) THEN w
    ELSE IF timeIndex < 0 THEN noTimeAt(w)
    ELSE IF w.timeKeys[timeIndex + 1] \notin DOMAIN w.timeData
         THEN Collect(rowsMissing(cleanupArray(beginUpdate(w, timeIndex,
                                                           w.timeKeys[timeIndex + 1]))))
         ELSE Collect(updateCleared_M1(cleanupArray(beginUpdate(w, timeIndex,
                                                                w.timeKeys[timeIndex + 1])),
                                       w.timeKeys[timeIndex + 1],
                                       w.timeData[w.timeKeys[timeIndex + 1]]))

(***************************************************************************)
(* main.js, second script (lines 884-1449): an earlier revision without     *)
(* merge events, highlight or centre-of-mass frame.  Its spheres are        *)
(* dropped with scene.remove alone.                                         *)
(***************************************************************************)
DEFAULT_COLOR_M2 == 328965
BINARY_COLOR == 65280
INTERLOPER_COLOR == 16711680
ELLIPSE_COLOR_M2 == 255
\* opacity 0.3 of a black hole that is neither primary nor partner, in tenths
OPACITY_OTHER == 3

\* lines 1080-1086 and 1227-1233: scene.remove(obj); map.delete(id)
unlinkOne(w, field, id) == [SceneRemove(w, w[field][id]) EXCEPT ![field] = MapDelete(@, id)]
unlinkMissing(w, field, ids) ==
    ForEach(LAMBDA acc, id : unlinkOne(acc, field, id), w, SortedSeq((DOMAIN w[field]) \ ids))
\* lines 1087-1088
unlinkEllipses(w) ==
    [ForEach(SceneRemove, w, SortedSeq(Range(w.ellipseObjects))) EXCEPT !.ellipseObjects = EmptyMap]

\* lines 1163-1170
newBHSphere_M2(w, bh) ==
    IF bh.bh_id \in DOMAIN w.bhObjects THEN w
    ELSE PutSphere(w, "bhObjects", bh.bh_id, NewHandle(w),
                   SceneObject("Mesh", "bh", <<bh.bh_id>>, DEFAULT_COLOR_M2, OPACITY_FULL, RZero))
\* lines 1171-1174, then the colour and opacity the caller's branch sets
paintBHSphere_M2(w, h, bh, color, opacity) ==
    [w EXCEPT !.heap[h].data = <<bh>>,
              !.heap[h].position = RInt(RowPos(bh)),
              !.heap[h].scale = 10,
              !.heap[h].color = color,
              !.heap[h].opacity = opacity]
getOrCreateBHSphere_M2(w, bh, color, opacity) ==
    paintBHSphere_M2(newBHSphere_M2(w, bh), newBHSphere_M2(w, bh).bhObjects[bh.bh_id],
                     bh, color, opacity)

\* line 1096
interloperId_M2(e) == IF e.id3 = e.id1 \/ e.id3 = e.id2 THEN e.id4 ELSE e.id3
\* lines 1098-1110
exchangeSphere_M2(w, e, bh) ==
    IF bh.bh_id = e.id1 \/ bh.bh_id = e.id2
    THEN getOrCreateBHSphere_M2(w, bh, BINARY_COLOR, OPACITY_FULL)
    ELSE IF bh.bh_id = interloperId_M2(e)
         THEN getOrCreateBHSphere_M2(w, bh, INTERLOPER_COLOR, OPACITY_FULL)
         ELSE getOrCreateBHSphere_M2(w, bh, DEFAULT_COLOR_M2, OPACITY_DIM)
\* lines 1112-1119: the opacity of a sphere that exists already is set too
normalSphere_M2(w, bh) ==
    getOrCreateBHSphere_M2(w, bh, DEFAULT_COLOR_M2,
                           IF w.primaryBhValue = Some(bh.bh_id) \/ bh.bh_id \in w.historicalPartners
                           THEN OPACITY_FULL ELSE OPACITY_OTHER)

\* E_bin = 0.5 m1 |v1|^2 + 0.5 m2 |v2|^2 - G m1 m2 / r12 < 0, which is
\* (m1 |v1|^2 + m2 |v2|^2) r12 (G_DEN / 10) < (G_NUM / 5) m1 m2; the quotient
\* keeps the products within 32 bits
BindingEnergyNegative(b1, b2, r12) ==
    (b1.mass_msun * LenSq(RowVel(b1)) + b2.mass_msun * LenSq(RowVel(b2))) * r12
        <= ((G_NUM \div 5) * b1.mass_msun * b2.mass_msun - 1) \div (G_DEN \div 10)
\* lines 1183-1216 for one partner; a > 0 needs h # 0
partnerEllipse(w, bh1, bh2) ==
    IF RowPos(bh1) = RowPos(bh2) THEN w
    ELSE IF /\ BindingEnergyNegative(bh1, bh2, ISqrt(LenSq(VSub(RowPos(bh2), RowPos(bh1)))))
            /\ EccentricityBelowOne(VSub(RowPos(bh2), RowPos(bh1)), VSub(RowVel(bh2), RowVel(bh1)),
                                    bh1.mass_msun + bh2.mass_msun)
            /\ Cross(VSub(RowPos(bh2), RowPos(bh1)), VSub(RowVel(bh2), RowVel(bh1))) # Zero3
         THEN addEllipse(w, <<Min2(bh1.bh_id, bh2.bh_id), Max2(bh1.bh_id, bh2.bh_id), 0>>,
                         bh1, bh2, bh1.mass_msun + bh2.mass_msun, RZero, ELLIPSE_COLOR_M2)
         ELSE w
drawEllipses(w, primaryBh, bhData) ==
    ForEach(LAMBDA acc, otherBh :
                IF otherBh.bh_id # primaryBh.bh_id /\ otherBh.bh_id \in w.historicalPartners
                THEN partnerEllipse(acc, primaryBh, otherBh) ELSE acc,
            w, bhData)

\* lines 1120-1122
primaryEllipses(w, primaryBhData, bhData) ==
    IF IsNull(primaryBhData) THEN w ELSE drawEllipses(w, Val(primaryBhData), bhData)
\* lines 1090-1123
spheres_M2(w, bhData) ==
    IF ~IsNull(w.selectedEvent)
    THEN ForEach(LAMBDA acc, bh : exchangeSphere_M2(acc, Val(w.selectedEvent), bh), w, bhData)
    ELSE primaryEllipses(ForEach(normalSphere_M2, w, bhData),
                         IF IsNull(w.primaryBhValue) THEN Null
                         ELSE FindBh(bhData, Val(w.primaryBhValue)),
                         bhData)

\* lines 1138-1140: inside the cube, faces included
InCube(p) ==
    /\ Abs(p.n[1]) <= SIMULATION_BOUNDS * p.d
    /\ Abs(p.n[2]) <= SIMULATION_BOUNDS * p.d
    /\ Abs(p.n[3]) <= SIMULATION_BOUNDS * p.d
validActors(w, ids) ==
    SelectSeq(ids, LAMBDA id : id \in DOMAIN w.bhObjects /\ InCube(PositionOf(w, id)))
\* lines 1126-1153: targetPosition
trackTarget_M2(w) ==
    IF ~IsNull(w.selectedEvent)
    THEN MeanPosition(w, validActors(w, <<Val(w.selectedEvent).id1, Val(w.selectedEvent).id2,
                                          interloperId_M2(Val(w.selectedEvent))>>))
    ELSE IF ~IsNull(w.primaryBhValue) /\ Val(w.primaryBhValue) \in DOMAIN w.bhObjects
         THEN Some(PositionOf(w, Val(w.primaryBhValue)))
         ELSE Null
\* lines 1155-1157: controls.target.copy(targetPosition)
copyTarget(w, targetPosition) ==
    IF IsNull(targetPosition) THEN w ELSE [w EXCEPT !.cameraGoalTarget = Val(targetPosition)]
trackCamera_M2(w) == IF w.isCameraTracking THEN copyTarget(w, trackTarget_M2(w)) ELSE w

\* lines 1236-1248
newNSSphere_M2(w, ns) ==
    IF ns.ns_id \in DOMAIN w.nsObjects THEN w
    ELSE PutSphere(w, "nsObjects", ns.ns_id, NewHandle(w),
                   SceneObject("Mesh", "ns", <<ns.ns_id>>, NS_MATERIAL_COLOR, NS_OPACITY_M1, RZero))
\* lines 1249-1252
moveNSSphere_M2(w, h, ns) ==
    [w EXCEPT !.heap[h].data = <<ns>>,
              !.heap[h].position = RInt(RowPos(ns)),
              !.heap[h].scale = 7,
              !.heap[h].visible = nsVisibleChecked]
placeNSSphere_M2(w, ns) ==
    moveNSSphere_M2(newNSSphere_M2(w, ns), newNSSphere_M2(w, ns).nsObjects[ns.ns_id], ns)
updateNSObjects_M2(w, time) ==
    ForEach(placeNSSphere_M2,
            unlinkMissing(w, "nsObjects", RowIds(NsRowsAt(w, time), "ns_id")),
            NsRowsAt(w, time))

\* lines 1071-1159
updateAt_M2(w, time, bhData) ==
    updateNSObjects_M2(
        trackCamera_M2(spheres_M2(unlinkEllipses(unlinkMissing(w, "bhObjects",
                                                                RowIds(bhData, "bh_id"))),
                                  bhData)),
        time)
updateBlackHoles_M2(w, timeIndex) ==
    IF timeIndex >= Len(w.timeKeys) THEN w
    ELSE IF timeIndex < 0 THEN noTimeAt(w)
    ELSE Collect(updateAt_M2(beginUpdate(w, timeIndex, w.timeKeys[timeIndex + 1]),
                             w.timeKeys[timeIndex + 1], w.timeData[w.timeKeys[timeIndex + 1]]))

\* lines 1256-1266, without the closing update
setHistoricalPartners(w) ==
    [w EXCEPT !.historicalPartners =
        IF ~IsNull(w.primaryBhValue) /\ Val(w.primaryBhValue) \in DOMAIN w.interactionMap
        THEN w.interactionMap[Val(w.primaryBhValue)]
        ELSE {}]

(***************************************************************************)
(* part_000: start-up and the handlers registered by setupUI.              *)
(***************************************************************************)
\* The session starts with the speed slider at its top position, so that
\* framesPerUpdate = 21 - 20: the state the speed-slider handler leaves when
\* it is used before a table is loaded
SPEED_SLIDER_MAX == 20

Commit(w) ==
    /\ variant' = w.variant
    /\ timeData' = w.timeData
    /\ nsData' = w.nsData
    /\ timeKeys' = w.timeKeys
    /\ interactionEvents' = w.interactionEvents
    /\ eventOptions' = w.eventOptions
    /\ sliderValue' = w.sliderValue
    /\ timeLabel' = w.timeLabel
    /\ isPlaying' = w.isPlaying
    /\ playLabel' = w.playLabel
    /\ frameCount' = w.frameCount
    /\ framesPerUpdate' = w.framesPerUpdate
    /\ selectedEvent' = w.selectedEvent
    /\ highlightedBhId' = w.highlightedBhId
    /\ massFilterMin' = w.massFilterMin
    /\ massFilterMax' = w.massFilterMax
    /\ useComFrame' = w.useComFrame
    /\ showSpinVectors' = w.showSpinVectors
    /\ heap' = w.heap
    /\ scene' = w.scene
    /\ bhObjects' = w.bhObjects
    /\ nsObjects' = w.nsObjects
    /\ ellipseObjects' = w.ellipseObjects
    /\ eventVectors' = w.eventVectors
    /\ cubeFrame' = w.cubeFrame
    /\ isCameraTracking' = w.isCameraTracking
    /\ cameraGoalTarget' = w.cameraGoalTarget
    /\ controlsTarget' = w.controlsTarget
    /\ xrPresenting' = w.xrPresenting
    /\ loaded' = w.loaded
    /\ primaryBhValue' = w.primaryBhValue
    /\ interactionMap' = w.interactionMap
    /\ historicalPartners' = w.historicalPartners
    /\ leaked' = w.leaked
    /\ updated' = w.updated

ValidIndex(w, idx) == idx >= 0 /\ idx < Len(w.timeKeys)
\* a handler that ends in updateBlackHoles(idx)
ThenUpdate(w, idx) ==
    \E u \in {updateBlackHoles(w, idx)} :
        Commit([u EXCEPT !.updated = ValidIndex(w, idx) /\ ~u.raised])
\* a handler that calls no update
NoUpdate(w) == \E w2 \in {w} : Commit(w2)

GroupByTime(rows) ==
    Table([t \in {rows[i].time_myr : i \in DOMAIN rows} |-> SelectSeq(rows, LAMBDA r : r.time_myr = t)])

\* the state after the script v has run init() and setupUI()
InitAs(v) ==
    /\ variant = v
    /\ timeData = <<>> /\ nsData = <<>> /\ timeKeys = <<>>
    /\ interactionEvents = <<>> /\ eventOptions = {}
    /\ sliderValue = 0 /\ timeLabel = Null
    /\ isPlaying = FALSE /\ playLabel = "Play"
    /\ frameCount = 0 /\ framesPerUpdate = 21 - SPEED_SLIDER_MAX
    /\ selectedEvent = Null /\ highlightedBhId = Null
    /\ massFilterMin = Null /\ massFilterMax = Null
    /\ useComFrame = FALSE /\ showSpinVectors = FALSE
    /\ cubeFrame = 1
    /\ isCameraTracking = (v # "P0") /\ cameraGoalTarget = RZero
    /\ controlsTarget = "rest" /\ xrPresenting = FALSE
    /\ heap = (1 :> SceneObject("LineSegments", "cube", <<>>,
                                 IF v = "P0" THEN CUBE_FRAME_COLOR ELSE CUBE_FRAME_COLOR_M1,
                                 OPACITY_FULL, RZero))
    /\ scene = {1}
    /\ bhObjects = EmptyMap /\ nsObjects = EmptyMap /\ ellipseObjects = EmptyMap
    /\ eventVectors = <<>>
    /\ loaded = {} /\ leaked = {} /\ updated = FALSE
    /\ primaryBhValue = Null /\ interactionMap = EmptyMap /\ historicalPartners = {}
Init == \E v \in {"P0", "M1"} : InitAs(v)
InitM2 == InitAs("M2")

\* loadHistoryCsv('bh_history.csv', timeData)
LoadBhHistory ==
    /\ variant = "P0" /\ "bh" \notin loaded
    /\ LET data == GroupByTime(BhCsv)
           w == [World EXCEPT !.timeData = data, !.timeKeys = SortedSeq(DOMAIN data),
                              !.loaded = @ \cup {"bh"}]
       IN  ThenUpdate(w, 0)
\* loadHistoryCsv('ns_history.csv', nsData)
LoadNsHistory ==
    /\ variant = "P0" /\ "ns" \notin loaded
    /\ NoUpdate([World EXCEPT !.nsData = GroupByTime(NsCsv), !.loaded = @ \cup {"ns"},
                              !.updated = FALSE])
LoadInteractionData ==
    /\ variant = "P0" /\ "events" \notin loaded
    /\ NoUpdate([World EXCEPT !.interactionEvents = EventCsv, !.loaded = @ \cup {"events"}])
\* Promise.all([...]).then(() => populateEventSelector())
PopulateEventSelector ==
    /\ variant = "P0" /\ {"bh", "ns", "events"} \subseteq loaded /\ "selector" \notin loaded
    /\ LET offered == {i \in 0..(Len(interactionEvents) - 1) :
                          Len(timeKeys) = 0 \/ interactionEvents[i + 1].time <= timeKeys[Len(timeKeys)]}
       IN  NoUpdate([World EXCEPT !.eventOptions = offered, !.loaded = @ \cup {"selector"}])

\* ts 'input'
SliderInput ==
    /\ variant = "P0"
    /\ \E v \in 0..(Len(timeKeys) - 1) : ThenUpdate(World, v)
\* ts 'pointerdown'
SliderPointerDown ==
    /\ variant = "P0"
    /\ NoUpdate([World EXCEPT !.isPlaying = FALSE])
PlayPauseClick ==
    /\ variant = "P0"
    /\ NoUpdate([World EXCEPT !.isPlaying = ~isPlaying,
                              !.playLabel = IF ~isPlaying THEN "Pause" ELSE "Play"])
\* parseFloat(value) || null, parseInt(value) || null: 0 and the empty input give null
OrNull(x) == IF IsNull(x) \/ Val(x) = 0 THEN Null ELSE x
\* line 340: m holds what parseFloat reads in the two mass fields (Null for NaN)
setMassFilter(w, m) ==
    [w EXCEPT !.massFilterMin = OrNull(m[1]), !.massFilterMax = OrNull(m[2])]
\* line 341: x is what parseInt reads in the highlight field
setHighlight(w, x) == [w EXCEPT !.highlightedBhId = OrNull(Some(x))]
MassInput ==
    /\ variant = "P0"
    /\ \E m \in MassInputs : ThenUpdate(setMassFilter(World, m), sliderValue)
HighlightInput ==
    /\ variant = "P0"
    /\ \E x \in HighlightInputs : ThenUpdate(setHighlight(World, x), sliderValue)
ClearHighlightClick ==
    /\ variant = "P0"
    /\ ThenUpdate([World EXCEPT !.highlightedBhId = Null], sliderValue)
\* interaction-event-select 'input'; k = -1 is the option None
selectEvent(w, k) ==
    LET sel == IF k >= 0 /\ k < Len(w.interactionEvents) THEN Some(w.interactionEvents[k + 1]) ELSE Null
        targetIdx == IF IsNull(sel) THEN -1 ELSE FindIndex(w.timeKeys, LAMBDA t : t >= Val(sel).time)
    IN  [w EXCEPT !.selectedEvent = sel,
                  !.sliderValue = IF targetIdx # -1 THEN targetIdx ELSE @]
EventSelectInput ==
    /\ variant = "P0" /\ "selector" \in loaded
    /\ \E k \in eventOptions \cup {-1} :
          LET w == selectEvent(World, k) IN ThenUpdate(w, w.sliderValue)
ComFrameChange ==
    /\ variant = "P0"
    /\ ThenUpdate([World EXCEPT !.useComFrame = ~useComFrame], sliderValue)
SpinVisibleChange ==
    /\ variant = "P0"
    /\ ThenUpdate([World EXCEPT !.showSpinVectors = ~showSpinVectors], sliderValue)
\* lines 373-376: the camera half of a frame
renderFrame(w) ==
    IF w.xrPresenting THEN w
    ELSE IF w.isCameraTracking THEN [w EXCEPT !.controlsTarget = "goal"] ELSE w
\* the update of a frame, and what it leaves of updated
playbackUpdate(w, idx) ==
    [updateBlackHoles(w, idx) EXCEPT !.updated = ValidIndex(w, idx) /\ ~updateBlackHoles(w, idx).raised]
\* lines 364-371: the playback half of a frame; the slider only holds a time
\* index once a table is loaded
playbackStep(w) ==
    IF ~w.isPlaying THEN w
    ELSE IF w.frameCount + 1 >= w.framesPerUpdate
         THEN IF Len(w.timeKeys) = 0 THEN [w EXCEPT !.frameCount = 0]
              ELSE playbackUpdate([w EXCEPT !.frameCount = 0], (w.sliderValue + 1) % Len(w.timeKeys))
         ELSE [w EXCEPT !.frameCount = w.frameCount + 1]
\* lines 362-376: one animation frame
animate(w) == renderFrame(playbackStep(w))
Animate ==
    /\ variant = "P0"
    /\ NoUpdate(animate(World))

NextP0 ==
    \/ LoadBhHistory \/ LoadNsHistory \/ LoadInteractionData \/ PopulateEventSelector
    \/ SliderInput \/ SliderPointerDown \/ PlayPauseClick
    \/ MassInput \/ HighlightInput \/ ClearHighlightClick \/ EventSelectInput
    \/ ComFrameChange \/ SpinVisibleChange \/ Animate

(***************************************************************************)
(* main.js, first script: start-up and the handlers of setupUI.            *)
(***************************************************************************)
ThenUpdate_M1(w, idx) ==
    \E u \in {updateBlackHoles_M1(w, idx)} :
        Commit([u EXCEPT !.updated = ValidIndex(w, idx) /\ ~u.raised])

\* loadData
LoadData_M1 ==
    /\ variant = "M1" /\ "bh" \notin loaded
    /\ LET data == GroupByTime(BhCsv)
           w == [World EXCEPT !.timeData = data, !.timeKeys = SortedSeq(DOMAIN data),
                              !.loaded = @ \cup {"bh"}]
       IN  ThenUpdate_M1(w, 0)
\* loadNSData
LoadNSData_M1 ==
    /\ variant = "M1" /\ "ns" \notin loaded
    /\ NoUpdate([World EXCEPT !.nsData = GroupByTime(NsCsv), !.loaded = @ \cup {"ns"},
                              !.updated = FALSE])
\* loadInteractionData, which ends in populateEventSelector(): a row needs every
\* id it names to be non-zero
LoadInteractionData_M1 ==
    /\ variant = "M1" /\ "events" \notin loaded
    /\ LET kept == SelectSeq(EventCsv, LAMBDA r :
                       \/ r.type = "EXCHANGE" /\ r.id1 # 0 /\ r.id2 # 0 /\ r.id3 # 0 /\ r.id4 # 0
                       \/ r.type = "MERGE" /\ r.id1 # 0 /\ r.id2 # 0)
       IN  NoUpdate([World EXCEPT !.interactionEvents = kept,
                                  !.eventOptions = 0..(Len(kept) - 1),
                                  !.loaded = @ \cup {"events", "selector"}])

SliderInput_M1 ==
    /\ variant = "M1"
    /\ \E v \in 0..(Len(timeKeys) - 1) : ThenUpdate_M1(World, v)
\* slider 'mousedown'
SliderMouseDown_M1 ==
    /\ variant = "M1"
    /\ IF isPlaying THEN NoUpdate([World EXCEPT !.isPlaying = FALSE, !.playLabel = "Play"])
       ELSE NoUpdate(World)
PlayPauseClick_M1 ==
    /\ variant = "M1"
    /\ NoUpdate([World EXCEPT !.isPlaying = ~isPlaying,
                              !.playLabel = IF ~isPlaying THEN "Pause" ELSE "Play"])
\* timeKeys.reduce((prev, curr, i) => |curr - target| < |timeKeys[prev] - target| ? i : prev, 0)
closestTimeIndex(keys, targetTime) ==
    ForEach(LAMBDA prev, i : IF Abs(keys[i + 1] - targetTime) < Abs(keys[prev + 1] - targetTime)
                             THEN i ELSE prev,
            0, [i \in 1..Len(keys) |-> i - 1])
\* eventSelect 'change': the time jumps to the sample closest to 1000 Myr before the event
selectEvent_M1(w, selectedIndex) ==
    LET sel == IF selectedIndex = -1 THEN Null ELSE Some(w.interactionEvents[selectedIndex + 1])
    IN  [w EXCEPT !.selectedEvent = sel,
                  !.sliderValue = IF ~IsNull(sel) /\ Len(w.timeKeys) > 0
                                  THEN closestTimeIndex(w.timeKeys, Val(sel).time - 1000)
                                  ELSE @]
EventSelectChange_M1 ==
    /\ variant = "M1"
    /\ \E k \in eventOptions \cup {-1} :
          LET w == selectEvent_M1(World, k) IN ThenUpdate_M1(w, w.sliderValue)
\* highlightedBhId = isNaN(id) ? null : id
setHighlight_M1(w, x) == [w EXCEPT !.highlightedBhId = Some(x)]
HighlightInput_M1 ==
    /\ variant = "M1"
    /\ \E x \in HighlightInputs : ThenUpdate_M1(setHighlight_M1(World, x), sliderValue)
ClearHighlightClick_M1 ==
    /\ variant = "M1"
    /\ ThenUpdate_M1([World EXCEPT !.highlightedBhId = Null], sliderValue)
ComFrameChange_M1 ==
    /\ variant = "M1"
    /\ ThenUpdate_M1([World EXCEPT !.useComFrame = ~useComFrame], sliderValue)
\* lines 821-844: the camera half of a frame
renderFrame_M1(w) ==
    IF w.xrPresenting THEN w
    ELSE IF w.isCameraTracking THEN [w EXCEPT !.controlsTarget = "goal"] ELSE w
\* the update of a frame, and what it leaves of updated
playbackUpdate_M1(w, idx) ==
    [updateBlackHoles_M1(w, idx)
         EXCEPT !.updated = ValidIndex(w, idx) /\ ~updateBlackHoles_M1(w, idx).raised]
\* lines 808-818: the playback half of a frame; slider.max = timeKeys.length - 1
playbackStep_M1(w) ==
    IF ~w.isPlaying THEN w
    ELSE IF w.frameCount + 1 >= w.framesPerUpdate
         THEN IF Len(w.timeKeys) = 0 THEN [w EXCEPT !.frameCount = 0]
              ELSE playbackUpdate_M1([w EXCEPT !.frameCount = 0],
                                     IF w.sliderValue + 1 >= Len(w.timeKeys) - 1 THEN 0
                                     ELSE w.sliderValue + 1)
         ELSE [w EXCEPT !.frameCount = w.frameCount + 1]
\* lines 805-849: one animation frame
animate_M1(w) == renderFrame_M1(playbackStep_M1(w))
Animate_M1 ==
    /\ variant = "M1"
    /\ NoUpdate(animate_M1(World))

NextM1 ==
    \/ LoadData_M1 \/ LoadNSData_M1 \/ LoadInteractionData_M1
    \/ SliderInput_M1 \/ SliderMouseDown_M1 \/ PlayPauseClick_M1
    \/ EventSelectChange_M1 \/ HighlightInput_M1 \/ ClearHighlightClick_M1
    \/ ComFrameChange_M1 \/ Animate_M1

(***************************************************************************)
(* main.js, second script: start-up and the handlers of setupUI.           *)
(***************************************************************************)
ThenUpdate_M2(w, idx) ==
    \E w2 \in {[updateBlackHoles_M2(w, idx) EXCEPT !.updated = ValidIndex(w, idx)]} : Commit(w2)

\* loadData
LoadData_M2 ==
    /\ variant = "M2" /\ "bh" \notin loaded
    /\ LET data == GroupByTime(BhCsv)
           w == [World EXCEPT !.timeData = data, !.timeKeys = SortedSeq(DOMAIN data),
                              !.loaded = @ \cup {"bh"}]
       IN  ThenUpdate_M2(w, 0)
\* loadNSData
LoadNSData_M2 ==
    /\ variant = "M2" /\ "ns" \notin loaded
    /\ NoUpdate([World EXCEPT !.nsData = GroupByTime(NsCsv), !.loaded = @ \cup {"ns"},
                              !.updated = FALSE])
\* lines 982-1003: every row with id1 and id2 links the two ids
partnersIn(rows) ==
    Table([id \in UNION {{rows[i].id1, rows[i].id2} : i \in DOMAIN rows} |->
              {rows[i].id2 : i \in {j \in DOMAIN rows : rows[j].id1 = id}}
                  \cup {rows[i].id1 : i \in {j \in DOMAIN rows : rows[j].id2 = id}}])
\* loadInteractionData: the first id becomes the primary black hole, then
\* updateHistoricalPartners() and populateExchangeSelector()
LoadInteractionData_M2 ==
    /\ variant = "M2" /\ "events" \notin loaded
    /\ LET linked == SelectSeq(EventCsv, LAMBDA r : r.id1 # 0 /\ r.id2 # 0)
           kept == SelectSeq(EventCsv, LAMBDA r : /\ r.type = "EXCHANGE" /\ r.id1 # 0 /\ r.id2 # 0
                                                  /\ r.id3 # 0 /\ r.id4 # 0)
           w == [World EXCEPT !.interactionMap = partnersIn(linked),
                              !.interactionEvents = kept,
                              !.eventOptions = 0..(Len(kept) - 1),
                              !.loaded = @ \cup {"events", "selector"}]
       IN  IF Len(linked) > 0
           THEN ThenUpdate_M2(setHistoricalPartners(
                                  [w EXCEPT !.primaryBhValue =
                                      Some(SortedSeq(DOMAIN w.interactionMap)[1])]),
                              sliderValue)
           ELSE NoUpdate(w)

SliderInput_M2 ==
    /\ variant = "M2"
    /\ \E v \in 0..(Len(timeKeys) - 1) : ThenUpdate_M2(World, v)
\* slider 'mousedown'
SliderMouseDown_M2 ==
    /\ variant = "M2"
    /\ IF isPlaying THEN NoUpdate([World EXCEPT !.isPlaying = FALSE, !.playLabel = "Play"])
       ELSE NoUpdate(World)
PlayPauseClick_M2 ==
    /\ variant = "M2"
    /\ NoUpdate([World EXCEPT !.isPlaying = ~isPlaying,
                              !.playLabel = IF ~isPlaying THEN "Pause" ELSE "Play"])
\* primaryBhSelect 'change'; the select is disabled while an exchange is selected
PrimaryBhChange_M2 ==
    /\ variant = "M2" /\ IsNull(selectedEvent)
    /\ \E id \in DOMAIN interactionMap :
          ThenUpdate_M2(setHistoricalPartners([World EXCEPT !.primaryBhValue = Some(id),
                                                            !.selectedEvent = Null]),
                        sliderValue)
\* exchangeEventSelect 'change': the time jumps to the sample closest to 100 Myr
\* before the event
selectExchange_M2(w, selectedIndex) ==
    IF selectedIndex = -1 THEN [w EXCEPT !.selectedEvent = Null]
    ELSE [w EXCEPT !.selectedEvent = Some(w.interactionEvents[selectedIndex + 1]),
                   !.sliderValue = IF Len(w.timeKeys) > 0
                                   THEN closestTimeIndex(w.timeKeys,
                                            w.interactionEvents[selectedIndex + 1].time - 100)
                                   ELSE @]
ExchangeSelectChange_M2 ==
    /\ variant = "M2"
    /\ \E k \in eventOptions \cup {-1} :
          \E w \in {selectExchange_M2(World, k)} : ThenUpdate_M2(w, w.sliderValue)
\* lines 1419-1431: one animation frame; slider.max = timeKeys.length - 1, and
\* controls.update() moves no target
animate_M2(w) ==
    IF ~w.isPlaying THEN w
    ELSE IF w.frameCount + 1 >= w.framesPerUpdate
         THEN IF Len(w.timeKeys) = 0 THEN [w EXCEPT !.frameCount = 0]
              ELSE [updateBlackHoles_M2([w EXCEPT !.frameCount = 0],
                                        IF w.sliderValue + 1 >= Len(w.timeKeys) - 1 THEN 0
                                        ELSE w.sliderValue + 1)
                        EXCEPT !.updated = TRUE]
         ELSE [w EXCEPT !.frameCount = w.frameCount + 1]
Animate_M2 ==
    /\ variant = "M2"
    /\ NoUpdate(animate_M2(World))

NextM2 ==
    \/ LoadData_M2 \/ LoadNSData_M2 \/ LoadInteractionData_M2
    \/ SliderInput_M2 \/ SliderMouseDown_M2 \/ PlayPauseClick_M2
    \/ PrimaryBhChange_M2 \/ ExchangeSelectChange_M2 \/ Animate_M2

Next == NextP0 \/ NextM1
Spec == Init /\ [][Next]_vars
SpecM2 == InitM2 /\ [][NextM2]_vars
(***************************************************************************)
(* part_000 on small tables: two black holes recorded at two times, with   *)
(* masses, positions and velocities drawn from bounded sets, and events    *)
(* that name the pair in either order.                                     *)
(***************************************************************************)
MaxPairMass == 3
PairPositions == {<<0, 0, 0>>, <<1, 0, 0>>, <<-1, 2, 0>>}
PairVelocities == {<<0, 1, 0>>, <<2, 0, -1>>}
PairEventCsv == <<MergeRow(50, 1, 2), MergeRow(50, 2, 1), ExchangeRow(50, 2, 1, 1, 2)>>
\* loadHistoryCsv('bh_history.csv', timeData) on a table of four rows
LoadPairHistory ==
    /\ variant = "P0" /\ "bh" \notin loaded
    /\ \E m1, m2 \in 1..MaxPairMass, p1, p2 \in PairPositions, v1, v2 \in PairVelocities :
          ThenUpdate([World EXCEPT !.timeData = GroupByTime(<<BhRow(0, 1, m1, p1, v1),
                                                              BhRow(0, 2, m2, p2, v2),
                                                              BhRow(50, 1, m1, p1, v1),
                                                              BhRow(50, 2, m2, p2, v2)>>),
                                   !.timeKeys = <<0, 50>>,
                                   !.loaded = @ \cup {"bh"}],
                     0)
LoadPairEvents ==
    /\ variant = "P0" /\ "events" \notin loaded
    /\ NoUpdate([World EXCEPT !.interactionEvents = PairEventCsv, !.loaded = @ \cup {"events"}])
InitPairs == InitAs("P0")
NextPairs ==
    \/ LoadPairHistory \/ LoadNsHistory \/ LoadPairEvents \/ PopulateEventSelector
    \/ SliderInput \/ EventSelectInput \/ ComFrameChange
SpecPairs == InitPairs /\ [][NextPairs]_vars

\* any of the three scripts
InitAll == Init \/ InitM2
NextAll == Next \/ NextM2
SpecAll == InitAll /\ [][NextAll]_vars

(***************************************************************************)
(* The arrow helpers applied to velocities read from a table whose cells   *)
(* may be no numbers.                                                      *)
(***************************************************************************)
MaxArrows == 2
Doubles == {FNum(0), FNum(1), FNum(-2), FNaN, FInf}
DoubleVectors == {<<a, b, c>> : a \in Doubles, b \in Doubles, c \in Doubles}
ArrowOrigins == {<<0, 0, 0>>, <<1, 0, 0>>}
\* drawVel(id, data, com) of part_000
CallDrawVel ==
    /\ variant = "P0"
    /\ Len(eventVectors) < MaxArrows
    /\ \E p \in ArrowOrigins, v \in DoubleVectors :
          NoUpdate(drawVel_fp(World, 1, p, v, RZero, VECTOR_COLOR, VEL_ARROW_SCALE, "vel"))
\* drawVelocityVector(bhId, bhData) of main.js with its default colour and scale
CallDrawVelocityVector ==
    /\ variant = "M1"
    /\ Len(eventVectors) < MaxArrows
    /\ \E p \in ArrowOrigins, v \in DoubleVectors :
          NoUpdate(drawVelocityVector_fp(World, 1, RInt(p), v, VECTOR_COLOR_M1, 1, 10, "vel"))
NextArrows == CallDrawVel \/ CallDrawVelocityVector
SpecArrows == Init /\ [][NextArrows]_vars
(***************************************************************************)
(* The camera: the tracking checkbox, the reset button, the immersive      *)
(* session and the frames, on the tables of the history and a catalogue of *)
(* two events.                                                             *)
(***************************************************************************)
CameraEventCsv == <<ExchangeRow(100, 1, 2, 1, 3), MergeRow(100, 1, 2)>>
\* loadInteractionData of part_000 on the two events
LoadCameraEvents ==
    /\ variant = "P0" /\ "events" \notin loaded
    /\ NoUpdate([World EXCEPT !.interactionEvents = CameraEventCsv, !.loaded = @ \cup {"events"}])
\* loadInteractionData of main.js on the two events, which ends in populateEventSelector()
LoadCameraEvents_M1 ==
    /\ variant = "M1" /\ "events" \notin loaded
    /\ NoUpdate([World EXCEPT !.interactionEvents = CameraEventCsv,
                              !.eventOptions = 0..(Len(CameraEventCsv) - 1),
                              !.loaded = @ \cup {"events", "selector"}])
\* part_000 lines 352-358, id === 'camera-track-checkbox'
CameraTrackChange ==
    /\ variant = "P0"
    /\ ThenUpdate([World EXCEPT !.isCameraTracking = ~isCameraTracking], sliderValue)
\* part_000 lines 321-326: controls.target and cameraTargetGoal are set to the origin
ResetCameraClick ==
    /\ variant = "P0"
    /\ NoUpdate([World EXCEPT !.controlsTarget = "rest", !.cameraGoalTarget = RZero])
\* main.js lines 712-717: unticking copies controls.target, which stands at the
\* origin until a frame has moved it, into cameraTargetGoal
CameraTrackChange_M1 ==
    /\ variant = "M1"
    /\ NoUpdate([World EXCEPT !.isCameraTracking = ~isCameraTracking,
                              !.cameraGoalTarget = IF isCameraTracking /\ controlsTarget = "rest"
                                                   THEN RZero ELSE @])
\* the VR button starts an immersive session (renderer.xr.enabled = true)
XrSessionStart ==
    /\ ~xrPresenting
    /\ NoUpdate([World EXCEPT !.xrPresenting = TRUE])
XrSessionEnd ==
    /\ xrPresenting
    /\ NoUpdate([World EXCEPT !.xrPresenting = FALSE])
NextCamera ==
    \/ LoadBhHistory \/ LoadNsHistory \/ LoadCameraEvents \/ PopulateEventSelector
    \/ SliderInput \/ HighlightInput \/ EventSelectInput
    \/ CameraTrackChange \/ ResetCameraClick \/ Animate
    \/ LoadData_M1 \/ LoadCameraEvents_M1
    \/ SliderInput_M1 \/ HighlightInput_M1 \/ EventSelectChange_M1
    \/ CameraTrackChange_M1 \/ Animate_M1
    \/ XrSessionStart \/ XrSessionEnd
SpecCamera == Init /\ [][NextCamera]_vars

(***************************************************************************)
(* Playback frame by frame: the three scripts on the black-hole history,   *)
(* with the speed slider setting how many frames make one step.            *)
(***************************************************************************)
MaxFramesPerUpdate == 3
\* speed-slider 'input' (part_000 line 330, main.js lines 710 and 1312)
SpeedInput ==
    /\ variant \in {"P0", "M1", "M2"}
    /\ \E v \in (21 - MaxFramesPerUpdate)..SPEED_SLIDER_MAX : NoUpdate([World EXCEPT !.framesPerUpdate = 21 - v])
InitPlayback == \E v \in {"P0", "M1", "M2"} : InitAs(v)
NextPlayback ==
    \/ SpeedInput
    \/ LoadBhHistory \/ SliderInput \/ SliderPointerDown \/ PlayPauseClick \/ Animate
    \/ LoadData_M1 \/ SliderInput_M1 \/ SliderMouseDown_M1 \/ PlayPauseClick_M1 \/ Animate_M1
    \/ LoadData_M2 \/ SliderInput_M2 \/ SliderMouseDown_M2 \/ PlayPauseClick_M2 \/ Animate_M2
SpecPlayback == InitPlayback /\ [][NextPlayback]_vars

(***************************************************************************)
(* The highlight field and the mass filter on a table that holds a black   *)
(* hole with id 0, with 0 among the values typed.                          *)
(***************************************************************************)
FilterBhCsv ==
    << BhRow(0,   0, 100, <<1, 0, 0>>, <<0, 1, 0>>),
       BhRow(0,   1, 200, <<0, 0, 0>>, <<0, -1, 0>>),
       BhRow(0,   2, 300, <<5, 0, 0>>, <<-3, 0, 0>>),
       BhRow(50,  0, 100, <<1, 1, 0>>, <<0, 1, 0>>),
       BhRow(50,  1, 200, <<0, 0, 0>>, <<0, -1, 0>>),
       BhRow(100, 0, 100, <<1, 2, 0>>, <<0, 1, 0>>),
       BhRow(100, 2, 300, <<2, 0, 0>>, <<-3, 0, 0>>) >>
\* what parseFloat reads in a mass field: Null for an empty field
FilterMassInputs == {Null, Some(0), Some(100), Some(200), Some(300)}
FilterHighlightInputs == {0, 1, 2}
LoadFilterHistory ==
    /\ variant = "P0" /\ "bh" \notin loaded
    /\ LET data == GroupByTime(FilterBhCsv)
           w == [World EXCEPT !.timeData = data, !.timeKeys = SortedSeq(DOMAIN data),
                              !.loaded = @ \cup {"bh"}]
       IN  ThenUpdate(w, 0)
LoadFilterData_M1 ==
    /\ variant = "M1" /\ "bh" \notin loaded
    /\ LET data == GroupByTime(FilterBhCsv)
           w == [World EXCEPT !.timeData = data, !.timeKeys = SortedSeq(DOMAIN data),
                              !.loaded = @ \cup {"bh"}]
       IN  ThenUpdate_M1(w, 0)
FilterMassInput ==
    /\ variant = "P0"
    /\ \E lo, hi \in FilterMassInputs : ThenUpdate(setMassFilter(World, <<lo, hi>>), sliderValue)
FilterHighlightInput ==
    /\ variant = "P0"
    /\ \E x \in FilterHighlightInputs : ThenUpdate(setHighlight(World, x), sliderValue)
FilterHighlightInput_M1 ==
    /\ variant = "M1"
    /\ \E x \in FilterHighlightInputs : ThenUpdate_M1(setHighlight_M1(World, x), sliderValue)
NextFilter ==
    \/ LoadFilterHistory \/ SliderInput \/ FilterMassInput \/ FilterHighlightInput
    \/ ClearHighlightClick
    \/ LoadFilterData_M1 \/ SliderInput_M1 \/ FilterHighlightInput_M1 \/ ClearHighlightClick_M1
SpecFilter == Init /\ [][NextFilter]_vars
(***************************************************************************)
(* Loading bh_history.csv: the time cells as text, what parseFloat makes   *)
(* of them, the Map the rows are grouped in and the sort of its keys.      *)
(***************************************************************************)
MaxRows == 2
\* a time cell: a decimal number, nothing, text that is no number, "Infinity"
CellNum(n) == [cell |-> "num", n |-> n]
CellEmpty == [cell |-> "empty", n |-> 0]
CellText == [cell |-> "text", n |-> 0]
CellInfinity == [cell |-> "Infinity", n |-> 0]
TimeCells == {CellNum(0), CellNum(50), CellEmpty, CellText, CellInfinity}
\* the value null of a time
TNull == [k |-> "null", n |-> 0]
\* v ? parseFloat(v) : null
parseTime(c) ==
    IF c.cell = "empty" THEN TNull
    ELSE IF c.cell = "text" THEN FNaN
    ELSE IF c.cell = "Infinity" THEN FInf
    ELSE FNum(c.n)
\* a line of the file: its time cell and its id; the other cells are numbers
CsvLines == [time : TimeCells, id : {1, 2}]
CsvFilesOf(n) == UNION {[1..k -> CsvLines] : k \in 0..n}
CsvFiles == CsvFilesOf(MaxRows)
parseLine(l) == BhRow(parseTime(l.time), l.id, 100 * l.id, <<l.id, 0, 0>>, <<0, 1, 0>>)
parseLines(f) == [i \in DOMAIN f |-> parseLine(f[i])]
\* Array.from(map.keys()): the keys in the order of their first row
MapKeys(rows) ==
    LET first == SortedSeq({i \in DOMAIN rows :
                               \A j \in 1..(i - 1) : rows[j].time_myr # rows[i].time_myr})
    IN  [k \in DOMAIN first |-> rows[first[k]].time_myr]
\* a - b < 0, with null read as 0; a and b are not NaN
TimeBefore(a, b) ==
    IF a.k = "inf" THEN FALSE
    ELSE IF b.k = "inf" THEN TRUE
    ELSE a.n < b.n
\* the stable sort by (a, b) => a - b of keys none of which is NaN
InsertKey(s, x) ==
    LET after == {i \in DOMAIN s : TimeBefore(x, s[i])}
        at == IF after = {} THEN Len(s) + 1 ELSE CHOOSE i \in after : \A j \in after : i <= j
    IN  SubSeq(s, 1, at - 1) \o <<x>> \o SubSeq(s, at, Len(s))
RECURSIVE StableSort(_)
StableSort(s) == IF s = <<>> THEN <<>> ELSE InsertKey(StableSort(SubSeq(s, 1, Len(s) - 1)), s[Len(s)])
Orderings(s) ==
    {[i \in DOMAIN s |-> s[p[i]]] : p \in {q \in [DOMAIN s -> DOMAIN s] : \A i, j \in DOMAIN s : q[i] = q[j] => i = j}}
\* keys.sort((a, b) => a - b): with a NaN among the keys the comparator is
\* not consistent and the order is the implementation's choice
SortOutcomes(s) ==
    IF \E i \in DOMAIN s : isNaN(s[i]) THEN Orderings(s) ELSE {StableSort(s)}
\* lines 86-97 of part_000: every row is grouped under its time
loadHistoryCsv(w, rows, keys) ==
    [w EXCEPT !.timeData = GroupByTime(rows), !.timeKeys = keys, !.loaded = @ \cup {"bh"}]
\* line 98: updateBlackHoles(0); null.toFixed raises in line 231
firstUpdate(w) ==
    IF w.timeKeys # <<>> /\ w.timeKeys[1] = TNull THEN [w EXCEPT !.sliderValue = 0, !.raised = TRUE]
    ELSE [updateBlackHoles(w, 0) EXCEPT !.updated = ValidIndex(w, 0) /\ ~updateBlackHoles(w, 0).raised]
\* loadData of main.js: rows whose time is null or NaN are skipped
keptRows_M1(rows) == SelectSeq(rows, LAMBDA r : ~(r.time_myr = TNull \/ isNaN(r.time_myr)))
firstUpdate_M1(w) ==
    [updateBlackHoles_M1(w, 0) EXCEPT !.updated = ValidIndex(w, 0) /\ ~updateBlackHoles_M1(w, 0).raised]
\* the states the load of the file f can end in
LoadResults(w, f) ==
    IF w.variant = "P0"
    THEN {firstUpdate(loadHistoryCsv(w, parseLines(f), keys)) :
              keys \in SortOutcomes(MapKeys(parseLines(f)))}
    ELSE {firstUpdate_M1(loadHistoryCsv(w, keptRows_M1(parseLines(f)), keys)) :
              keys \in SortOutcomes(MapKeys(keptRows_M1(parseLines(f))))}
LoadCsvFile ==
    /\ variant = "P0" /\ "bh" \notin loaded
    /\ \E f \in CsvFiles : \E u \in LoadResults(World, f) : Commit(u)
LoadCsvFile_M1 ==
    /\ variant = "M1" /\ "bh" \notin loaded
    /\ \E f \in CsvFiles : \E u \in LoadResults(World, f) : Commit(u)
NextLoad == LoadCsvFile \/ LoadCsvFile_M1
SpecLoad == Init /\ [][NextLoad]_vars
(***************************************************************************)
(* Start-up: the three loads of Promise.all complete in any order, the     *)
(* histories hold the records up to some epoch, and the fetch of           *)
(* ns_history.csv may fail.                                                *)
(***************************************************************************)
StartupTimes == {0, 50, 100}
BhUpTo(T) == SelectSeq(AllBhRows, LAMBDA r : r.time_myr <= T)
\* T = -50 is a file with no record
NsUpTo(T) == SelectSeq(AllNsRows, LAMBDA r : r.time_myr <= T)
\* the state in which the load of the black-hole history ends
bhLoaded(w, T) ==
    LET v == [w EXCEPT !.timeData = GroupByTime(BhUpTo(T)),
                       !.timeKeys = SortedSeq(DOMAIN GroupByTime(BhUpTo(T))),
                       !.loaded = @ \cup {"bh"}]
    IN  IF w.variant = "P0"
        THEN [updateBlackHoles(v, 0) EXCEPT !.updated = ~updateBlackHoles(v, 0).raised]
        ELSE IF w.variant = "M1"
        THEN [updateBlackHoles_M1(v, 0) EXCEPT !.updated = ~updateBlackHoles_M1(v, 0).raised]
        ELSE [updateBlackHoles_M2(v, 0) EXCEPT !.updated = TRUE]
StartupBh ==
    /\ "bh" \notin loaded
    /\ \E T \in StartupTimes : NoUpdate(bhLoaded(World, T))
\* loadHistoryCsv('ns_history.csv', nsData) / loadNSData(): no update follows
StartupNs ==
    /\ "ns" \notin loaded /\ "nsFailed" \notin loaded
    /\ \E T \in StartupTimes \cup {-50} :
          NoUpdate([World EXCEPT !.nsData = GroupByTime(NsUpTo(T)), !.loaded = @ \cup {"ns"}])
\* fetch('ns_history.csv') rejects: part_000 lets the promise of
\* loadHistoryCsv reject, and with it Promise.all; main.js catches and warns
StartupNsFails ==
    /\ "ns" \notin loaded /\ "nsFailed" \notin loaded
    /\ NoUpdate([World EXCEPT !.loaded = @ \cup {"nsFailed"}])
InitStartup == \E v \in {"P0", "M1", "M2"} : InitAs(v)
NextStartup ==
    \/ StartupBh \/ StartupNs \/ StartupNsFails
    \/ LoadInteractionData \/ PopulateEventSelector
    \/ LoadInteractionData_M1 \/ LoadInteractionData_M2
SpecStartup == InitStartup /\ [][NextStartup]_vars
(***************************************************************************)
(* Properties of the display.                                              *)
(***************************************************************************)
\* the time on display and the rows recorded for it
timeShown == timeKeys[sliderValue + 1]
bhRowsShown == timeData[timeShown]
nsRowsShown == IF timeShown \in DOMAIN nsData THEN nsData[timeShown] ELSE <<>>
idsShown == RowIds(bhRowsShown, "bh_id")
ColorOf(id) == heap[bhObjects[id]].color
OpacityOf(id) == heap[bhObjects[id]].opacity
TRANSIENT_TYPES == {"ArrowHelper", "Line"}
Arrows(kind) == {h \in DOMAIN heap : heap[h].type = "ArrowHelper" /\ heap[h].kind = kind}
Ellipses == {h \in DOMAIN heap : heap[h].type = "Line"}
\* the role colours of the script that runs
BinaryColor == IF variant = "P0" THEN BINARY_PARTICLE_COLOR ELSE BINARY_PARTICLE_COLOR_M1
InterloperColor == IF variant = "P0" THEN INTERLOPER_PARTICLE_COLOR ELSE INTERLOPER_PARTICLE_COLOR_M1
RemnantColor == IF variant = "P0" THEN POST_EVENT_COLOR ELSE POST_EVENT_COLOR_M1
PreOrbitColor == IF variant = "P0" THEN PRE_EXCHANGE_ORBIT_COLOR ELSE PRE_EXCHANGE_ORBIT_COLOR_M1
PostOrbitColor == IF variant = "P0" THEN POST_EVENT_COLOR ELSE POST_EVENT_COLOR_M1
ExchangeShown == updated /\ ~IsNull(selectedEvent) /\ Val(selectedEvent).type = "EXCHANGE"
MergeShown == updated /\ ~IsNull(selectedEvent) /\ Val(selectedEvent).type = "MERGE"
Progenitors == {Val(selectedEvent).id1, Val(selectedEvent).id2}
NewBinary == {Val(selectedEvent).id3, Val(selectedEvent).id4}

\* C1: after an update at a valid time index, whatever event, highlight and
\* filters are set, the ids that own a black-hole sphere are exactly the
\* black-hole ids recorded for the timestep on display and the ids that own a
\* neutron-star sphere are exactly its neutron-star ids; each sphere is in
\* the scene.
C1_LiveIdsMatchTimestep ==
    updated => /\ DOMAIN bhObjects = idsShown
               /\ DOMAIN nsObjects = RowIds(nsRowsShown, "ns_id")
               /\ Range(bhObjects) \cup Range(nsObjects) \subseteq scene
               /\ \A h \in Range(bhObjects) \cup Range(nsObjects) : heap[h].type = "Mesh"
\* a black hole and a neutron star have left the display while an event and a
\* highlighted id are set
C1_Witness ==
    /\ updated /\ "ns" \in loaded /\ sliderValue = 3
    /\ ~IsNull(selectedEvent) /\ ~IsNull(highlightedBhId)
    /\ DOMAIN bhObjects = {1, 3} /\ DOMAIN nsObjects = {}

\* C2: a sphere dropped from bhObjects or nsObjects because its id is absent
\* from the new timestep has had its geometry and its material disposed and
\* is out of the scene: no sphere is dropped while it still owns a resource,
\* and no sphere stays in the scene without its map entry.
C2_DroppedSphereReleased ==
    /\ \A l \in leaked : l.type # "Mesh"
    /\ \A h \in scene : heap[h].type = "Mesh" => h \in Range(bhObjects) \cup Range(nsObjects)

\* C3: every ellipse and arrow of one update is removed from the scene by the
\* next update with every resource it owns disposed, and after an update the
\* transients in the scene are exactly those the update created and exactly
\* those ellipseObjects and eventVectors track.
C3_TransientsReleased ==
    /\ \A l \in leaked : l.type \notin TRANSIENT_TYPES
    /\ updated =>
          /\ {h \in scene : heap[h].type \in TRANSIENT_TYPES}
                 = {h \in DOMAIN heap : heap[h].type \in TRANSIENT_TYPES /\ heap[h].fresh}
          /\ {h \in scene : heap[h].type \in TRANSIENT_TYPES}
                 = Range(ellipseObjects) \cup Range(eventVectors)

\* what an update shows, and what it is computed from
Visuals == <<heap, scene, bhObjects, nsObjects, ellipseObjects, eventVectors>>
Settings ==
    <<timeData, nsData, timeKeys, sliderValue, selectedEvent, highlightedBhId,
      massFilterMin, massFilterMax, useComFrame, showSpinVectors>>
\* C4: an update that follows an update at the same time index with nothing
\* else changed leaves the spheres (ids, positions, colours, opacities) and
\* the ellipses and arrows as the first update left them.
C4_UpdateIdempotent ==
    [][(updated /\ updated' /\ Settings' = Settings) => Visuals' = Visuals]_vars
\* an update has drawn the two ellipses and arrows of a selected event
C4_Witness ==
    /\ updated /\ ~IsNull(selectedEvent) /\ ~IsNull(highlightedBhId)
    /\ Cardinality(DOMAIN ellipseObjects) = 2 /\ Len(eventVectors) >= 2

\* C5: with an Exchange event selected (and no id highlighted), from the
\* event time on every live member of the new binary (id3, id4) has the
\* binary-member colour at full opacity and the ejected member of the old
\* binary does not have it; before the event time the live members of the
\* old binary have the binary-member colour and the incoming particle the
\* interloper colour.
C5_ExchangeColoursFollowPhase ==
    (ExchangeShown /\ IsNull(highlightedBhId)) =>
        IF timeShown >= Val(selectedEvent).time
        THEN /\ \A id \in NewBinary \cap DOMAIN bhObjects :
                    ColorOf(id) = BinaryColor /\ OpacityOf(id) = OPACITY_FULL
             /\ \A id \in (Progenitors \ NewBinary) \cap DOMAIN bhObjects :
                    ColorOf(id) # BinaryColor
        ELSE /\ \A id \in Progenitors \cap DOMAIN bhObjects :
                    ColorOf(id) = BinaryColor /\ OpacityOf(id) = OPACITY_FULL
             /\ \A id \in (NewBinary \ Progenitors) \cap DOMAIN bhObjects :
                    ColorOf(id) = InterloperColor

\* both rows of the pair are recorded, apart, and on a bound orbit
BoundNow(pair) ==
    /\ pair \subseteq idsShown
    /\ \A a \in pair : \A b \in pair \ {a} :
          /\ RowPos(Val(FindBh(bhRowsShown, a))) # RowPos(Val(FindBh(bhRowsShown, b)))
          /\ IsBound(Val(FindBh(bhRowsShown, a)), Val(FindBh(bhRowsShown, b)))
Moving(id) == id \in idsShown /\ RowVel(Val(FindBh(bhRowsShown, id))) # Zero3
\* the visuals of one phase: ellipses of pair in color, the velocity arrow
\* kind for every mover, and no arrow of the other phase's kind
PhaseVisuals(pair, color, kind, movers, otherKind) ==
    /\ \A h \in Ellipses : {heap[h].id[1], heap[h].id[2]} = pair /\ heap[h].color = color
    /\ (Cardinality(pair) = 2 /\ BoundNow(pair)) => Cardinality(Ellipses) = 2
    /\ \A id \in movers : Moving(id) => \E h \in Arrows(kind) : heap[h].id = <<id>>
    /\ Arrows(otherKind) = {}
\* C6: with an Exchange event selected, the time on display alone decides the
\* phase: before the event time the orbit drawn is that of the old pair
\* (id1, id2) and the velocity arrow is the interloper's; from the event time
\* on (the event time included) the orbit is that of the new pair (id3, id4)
\* and the velocity arrow is the ejected particle's; no visual of the other
\* phase remains.
C6_ExchangePhaseFollowsTime ==
    ExchangeShown =>
        IF timeShown < Val(selectedEvent).time
        THEN PhaseVisuals(Progenitors, PreOrbitColor, "interloperVel",
                          NewBinary \ Progenitors, "ejectedVel")
        ELSE PhaseVisuals(NewBinary, PostOrbitColor, "ejectedVel",
                          Progenitors \ NewBinary, "interloperVel")
\* the display stands exactly at the event time with the new pair's orbit and
\* the ejected particle's arrow
C6_Witness ==
    /\ ExchangeShown /\ timeShown = Val(selectedEvent).time
    /\ Cardinality(Ellipses) = 2 /\ Arrows("ejectedVel") # {}
\* the display stands before the event time with the old pair's orbit and the
\* interloper's arrow
C6_WitnessBefore ==
    /\ ExchangeShown /\ timeShown < Val(selectedEvent).time
    /\ Cardinality(Ellipses) = 2 /\ Arrows("interloperVel") # {}

\* C7: with an Exchange event (id1, id2) -> (id3, id4) selected, a particle is
\* treated as interloper (interloper colour, interloper velocity arrow) only
\* if it is in {id3, id4} and not in {id1, id2}, and as ejected (ejected
\* velocity arrow) only if it is in {id1, id2} and not in {id3, id4}; when
\* the membership is unchanged no such arrow is drawn.
C7_MoversChangeBinary ==
    ExchangeShown =>
        /\ \A h \in Arrows("interloperVel") : heap[h].id[1] \in NewBinary \ Progenitors
        /\ \A h \in Arrows("ejectedVel") : heap[h].id[1] \in Progenitors \ NewBinary
        /\ \A id \in DOMAIN bhObjects :
              ColorOf(id) = InterloperColor => id \in NewBinary \ Progenitors

\* C8: with a Merge event selected, from the event time on, when exactly one
\* progenitor id is recorded in the timestep on display, that particle has
\* the remnant colour at full opacity and every other live particle is
\* dimmed.
C8_SoleProgenitorIsRemnant ==
    (/\ MergeShown /\ timeShown >= Val(selectedEvent).time
     /\ Cardinality(Progenitors \cap idsShown) = 1) =>
        \A id \in DOMAIN bhObjects :
            IF id \in Progenitors
            THEN ColorOf(id) = RemnantColor /\ OpacityOf(id) = OPACITY_FULL
            ELSE OpacityOf(id) = OPACITY_DIM

\* C9: with a Merge event selected, from the event time on, when neither or
\* both progenitor ids are recorded in the timestep on display, no particle
\* has the remnant colour at full opacity and no remnant-velocity, kick or
\* merge-spin arrow is drawn.
C9_NoRemnantWhenAmbiguous ==
    (/\ MergeShown /\ timeShown >= Val(selectedEvent).time
     /\ Cardinality(Progenitors \cap idsShown) # 1) =>
        /\ \A id \in DOMAIN bhObjects :
              ~(ColorOf(id) = RemnantColor /\ OpacityOf(id) = OPACITY_FULL)
        /\ Arrows("remnantVel") \cup Arrows("kick") \cup Arrows("mergeSpin") = {}

\* the ids the selected event names
Actors ==
    IF IsNull(selectedEvent) THEN {}
    ELSE IF Val(selectedEvent).type = "EXCHANGE" THEN Progenitors \cup NewBinary
    ELSE Progenitors
\* C10: after an update the colours are those of the selection in force: a
\* particle the selected event does not name (any particle, when no event is
\* selected) carries no role colour, so no role colouring of an event that
\* was selected before survives.
C10_NoRoleColourSurvives ==
    updated => \A id \in (DOMAIN bhObjects) \ Actors :
                   ColorOf(id) \notin {BinaryColor, InterloperColor, RemnantColor}

\* the colours of the highlight and of the mass-range filter
FilterColors ==
    IF variant = "P0" THEN {highlightColor, massRangeColor} ELSE {HIGHLIGHT_COLOR}
\* C11: an update that runs while an event is selected gives no particle the
\* highlight colour or the mass-range colour, whatever the highlighted id and
\* the mass filter are: a sphere that has such a colour after the update had
\* the same colour before it.
C11_NoFilterColourUnderEvent ==
    [][(updated' /\ ~IsNull(selectedEvent')) =>
          \A id \in DOMAIN bhObjects' :
              heap'[bhObjects'[id]].color \in FilterColors =>
                  id \in DOMAIN bhObjects /\ ColorOf(id) = heap'[bhObjects'[id]].color]_vars


\* the sampled times that precede the selected event, and the greatest of them
EarlierTimes == {t \in Range(timeKeys) : t < Val(selectedEvent).time}
PreMergerTime == CHOOSE t \in EarlierTimes : \A u \in EarlierTimes : u <= t
\* the rows of the two progenitors at the pre-merger timestep
PreRow(id) == FindBh(timeData[PreMergerTime], id)
\* a Merge event on display from the event time on, with the remnant identified
RemnantShown ==
    /\ MergeShown /\ timeShown >= Val(selectedEvent).time
    /\ Cardinality(Progenitors \cap idsShown) = 1
Remnant == CHOOSE id \in Progenitors : id \in idsShown
RemnantRow == Val(FindBh(bhRowsShown, Remnant))
\* ... and the pre-merger timestep holds both progenitors
KickCase ==
    /\ RemnantShown
    /\ EarlierTimes # {}
    /\ \A id \in Progenitors : ~IsNull(PreRow(id))
\* v_remnant - v_com_pre
KickVelocity ==
    RSub(RInt(RowVel(RemnantRow)),
         MassMean(RowVel(Val(PreRow(Val(selectedEvent).id1))),
                  Val(PreRow(Val(selectedEvent).id1)).mass_msun,
                  RowVel(Val(PreRow(Val(selectedEvent).id2))),
                  Val(PreRow(Val(selectedEvent).id2)).mass_msun))
ArrowsAt(p) == {h \in DOMAIN heap : heap[h].type = "ArrowHelper" /\ heap[h].position = p}
\* C12: at a timestep from the event time on where the remnant is identified
\* and the pre-merger timestep holds both progenitors, an arrow along the kick
\* velocity v_remnant - v_com_pre stands at the remnant, and it is another
\* arrow than the one along the remnant's own velocity.
C12_KickArrowAtRemnant ==
    (KickCase /\ KickVelocity.n # Zero3 /\ RowVel(RemnantRow) # Zero3) =>
        \E k, v \in ArrowsAt(heap[bhObjects[Remnant]].position) :
            /\ k # v
            /\ heap[k].dir = Direction(KickVelocity.n)
            /\ heap[v].dir = Direction(RowVel(RemnantRow))


\* the arrows at the remnant that are computed from the pre-merger rows
PostMergeVectors ==
    IF variant = "P0" THEN Arrows("remnantVel") \cup Arrows("mergeSpin") ELSE Arrows("mergeSpin")
\* C13: for a Merge event on display from the event time on with the remnant
\* identified, the post-merge vectors are drawn exactly when some sampled time
\* is strictly less than the event time and the greatest such time holds the
\* rows of both progenitors, whatever the value of that time (0 included).
C13_PostVectorsIffPreMergerRows ==
    RemnantShown => (PostMergeVectors # {} <=> KickCase)
\* the same with the pre-merger time 0 left out
C13_ExceptTimeZero ==
    (RemnantShown /\ (EarlierTimes # {} => PreMergerTime # 0)) =>
        (PostMergeVectors # {} <=> KickCase)


\* where every object of the scene stands: the spheres, the arrows, the
\* ellipses and the reference cube
PlacedIn(w) ==
    {<<w.heap[h].type, w.heap[h].kind, w.heap[h].id, w.heap[h].position>> : h \in w.scene}
\* the change handler of the CoM checkbox unticking it
ComFrameOff(w) ==
    IF w.variant = "P0"
    THEN updateBlackHoles([w EXCEPT !.useComFrame = FALSE], w.sliderValue)
    ELSE updateBlackHoles_M1([w EXCEPT !.useComFrame = FALSE], w.sliderValue)
BackInPlace(w, before) ==
    /\ PlacedIn(w) = PlacedIn(before)
    /\ w.heap[w.cubeFrame].position = RZero
\* C14: ticking the CoM checkbox and unticking it again at the same time index
\* puts every sphere, arrow and ellipse back where it stood before the tick,
\* and the reference cube at the origin.
C14_ComFrameRoundTrip ==
    [][(~useComFrame /\ useComFrame' /\ updated /\ updated' /\ sliderValue' = sliderValue) =>
          BackInPlace(ComFrameOff(World'), World)]_vars
\* the CoM frame is on and has moved the display: the cube is off the origin,
\* with spheres of both kinds, arrows and ellipses in the scene
C14_Witness ==
    /\ useComFrame /\ updated
    /\ heap[cubeFrame].position # RZero
    /\ DOMAIN nsObjects # {} /\ Ellipses # {} /\ Len(eventVectors) > 0


\* the rows of the pair an ellipse was drawn for, at the time on display
EllipseRow(h, k) == Val(FindBh(bhRowsShown, heap[h].id[k]))
RelR(h) == VSub(RowPos(EllipseRow(h, 1)), RowPos(EllipseRow(h, 2)))
RelV(h) == VSub(RowVel(EllipseRow(h, 1)), RowVel(EllipseRow(h, 2)))
PairMass(h) == EllipseRow(h, 1).mass_msun + EllipseRow(h, 2).mass_msun
Separation(h) == ISqrt(LenSq(RelR(h)))
\* 0.5 |v|^2 - G M / |r| < 0 for a pair at distinct positions
SpecificEnergyNegative(h) == LenSq(RelV(h)) * Separation(h) * G_DEN < 2 * G_NUM * PairMass(h)
\* |e|^2 = 1 + 2 en |h|^2 / (G M)^2 < 1: the energy is negative and the angular
\* momentum is not zero
EccentricityLessThanOne(h) == SpecificEnergyNegative(h) /\ Cross(RelR(h), RelV(h)) # Zero3
\* a fraction that is a finite number >= 0
FiniteNonNegative(f) == f.den > 0 /\ f.num >= 0
C16_NoEllipseAtZeroSeparation ==
    updated =>
        \A h \in Ellipses :
            (\A k \in {1, 2} : ~IsNull(FindBh(bhRowsShown, heap[h].id[k]))) => RelR(h) # Zero3


\* the update of the script that runs, at the time index idx
UpdateAt(idx) ==
    IF variant = "P0" THEN updateBlackHoles(World, idx) ELSE updateBlackHoles_M1(World, idx)
\* the particle ids an arrow or an ellipse was drawn for
NamedIds(h) == IF heap[h].type = "Line" THEN {heap[h].id[1], heap[h].id[2]} ELSE Range(heap[h].id)
\* C17: from every state, whatever event is selected (its ids recorded in the
\* timestep or not) and whatever the highlight and the mass filter are, the
\* update at every time index in range runs to its end without raising an
\* error; after it the spheres are exactly those of the ids recorded for the
\* timestep, and a record that is missing costs no more than the arrows and
\* ellipses that need it: every arrow and ellipse in the scene names recorded
\* ids only.
C17_UpdateCompletes ==
    /\ \A idx \in 0..(Len(timeKeys) - 1) : ~UpdateAt(idx).raised
    /\ updated =>
          /\ timeLabel = Some(timeShown)
          /\ DOMAIN bhObjects = idsShown
          /\ DOMAIN nsObjects = RowIds(nsRowsShown, "ns_id")
          /\ Range(bhObjects) \cup Range(nsObjects) \subseteq scene
          /\ \A h \in scene : heap[h].type \in TRANSIENT_TYPES => NamedIds(h) \subseteq idsShown
\* an update has run with an Exchange event selected whose ejected particle is
\* not recorded in the timestep, and with a highlighted id that is not
\* recorded either: the arrow of the ejected particle is missing, the arrow of
\* the new pair's centre of mass is drawn
C17_Witness ==
    /\ ExchangeShown /\ timeShown >= Val(selectedEvent).time
    /\ (Progenitors \ NewBinary) \ idsShown # {}
    /\ ~IsNull(highlightedBhId) /\ Val(highlightedBhId) \notin idsShown
    /\ Arrows("ejectedVel") = {} /\ Arrows("comVel") # {}


\* first sampled time <= t <= last sampled time
InSampledRange(t) == timeKeys[1] <= t /\ t <= timeKeys[Len(timeKeys)]
\* C18: once the tables are loaded, every event offered for selection has its
\* time within the sampled range, first and last sample included, and so has
\* the event that is selected, if any.
C18_OnlyEventsInRange ==
    (Len(timeKeys) > 0 /\ "selector" \in loaded) =>
        /\ \A i \in eventOptions : InSampledRange(interactionEvents[i + 1].time)
        /\ ~IsNull(selectedEvent) => InSampledRange(Val(selectedEvent).time)
\* the part of it that the filter of populateEventSelector in part_000 ensures
C18_NoneAfterLastSample ==
    (variant = "P0" /\ Len(timeKeys) > 0 /\ "selector" \in loaded) =>
        /\ \A i \in eventOptions : interactionEvents[i + 1].time <= timeKeys[Len(timeKeys)]
        /\ ~IsNull(selectedEvent) => Val(selectedEvent).time <= timeKeys[Len(timeKeys)]


\* the offset in force: the cube stands at its negative
ComNow == RNeg(heap[cubeFrame].position)
PairRow(h, k) == Val(FindBh(bhRowsShown, heap[h].id[k]))
\* the centre of mass of the pair an arrow names, taken in the other order
SwappedComPosition(h) ==
    MassMean(RowPos(PairRow(h, 2)), PairRow(h, 2).mass_msun,
             RowPos(PairRow(h, 1)), PairRow(h, 1).mass_msun)
SwappedComVelocity(h) ==
    MassMean(RowVel(PairRow(h, 2)), PairRow(h, 2).mass_msun,
             RowVel(PairRow(h, 1)), PairRow(h, 1).mass_msun)
\* C19: the centre-of-mass position and velocity of a pair do not depend on
\* the order of the two records: the arrow drawn for the pair (a, b) stands
\* where the centre of mass computed for (b, a) is and has the direction and
\* the length of the velocity computed for (b, a).
C19_ComOfPairSymmetric ==
    updated =>
        \A h \in Arrows("comVel") :
            /\ heap[h].position = RSub(SwappedComPosition(h), ComNow)
            /\ heap[h].dir = Direction(SwappedComVelocity(h).n)
            /\ heap[h].len = SpeedTimes(SwappedComVelocity(h), VEL_ARROW_SCALE * velScaleMultiplier)
\* a centre-of-mass arrow is drawn for the pair (2, 1), whose two records
\* differ in mass, position and velocity
C19_Witness ==
    /\ updated
    /\ \E h \in Arrows("comVel") :
          /\ heap[h].id = <<2, 1>>
          /\ PairRow(h, 1).mass_msun # PairRow(h, 2).mass_msun
          /\ RowPos(PairRow(h, 1)) # RowPos(PairRow(h, 2))
          /\ RowVel(PairRow(h, 1)) # RowVel(PairRow(h, 2))

\* C20: every arrow in the scene is longer than 1e-6, and neither its length
\* nor any of the x, y, z of its direction is NaN or infinite: a vector that
\* fails this is suppressed, never drawn.
DrawnArrows == {h \in scene : heap[h].type = "ArrowHelper"}
C20_NoDegenerateArrow ==
    \A h \in DrawnArrows :
        /\ isFinite(heap[h].len)
        /\ ~TooShort(heap[h].len.l)
        /\ \A i \in 1..3 : isFinite(heap[h].dir[i])
\* what the test of the length does keep out: a finite length <= 1e-6
C20_ShortOrNaNxSuppressed ==
    \A h \in DrawnArrows : ~FTooShort(heap[h].len)

\* the records of the time on display, black holes then neutron stars
RecordsShown == bhRowsShown \o nsRowsShown
RECURSIVE MassSum(_, _)
MassSum(rows, i) == IF i > Len(rows) THEN 0 ELSE rows[i].mass_msun + MassSum(rows, i + 1)
RECURSIVE MomentSum(_, _)
MomentSum(rows, i) ==
    IF i > Len(rows) THEN Zero3
    ELSE VAdd(VScale(RowPos(rows[i]), rows[i].mass_msun), MomentSum(rows, i + 1))
\* the offset c: the mass-weighted mean position of all records when CoM mode
\* is on and the total mass is not 0, else the zero vector
ComOffset ==
    IF useComFrame /\ MassSum(RecordsShown, 1) > 0
    THEN RVec(MomentSum(RecordsShown, 1), MassSum(RecordsShown, 1))
    ELSE RZero
RawBh(id) == RowPos(Val(FindBh(bhRowsShown, id)))
RawNs(id) == RowPos(Val(Find(nsRowsShown, LAMBDA n : n.ns_id = id)))
RawBarycenter(id1, id2) ==
    MassMean(RawBh(id1), Val(FindBh(bhRowsShown, id1)).mass_msun,
             RawBh(id2), Val(FindBh(bhRowsShown, id2)).mass_msun)
\* where an arrow starts in the raw frame: at the particle it names, or at the
\* barycenter of the pair it names
RawOrigin(h) ==
    IF Len(heap[h].id) = 1 THEN RInt(RawBh(heap[h].id[1]))
    ELSE RawBarycenter(heap[h].id[1], heap[h].id[2])
\* C21: after every update with CoM offset c, every black-hole and
\* neutron-star sphere is at the position of its record minus c, every orbit
\* ellipse at the barycenter of its pair minus c, every arrow starts at its
\* raw origin minus c, and the reference cube is at -c.
C21_SceneShiftedByComOffset ==
    updated =>
        /\ heap[cubeFrame].position = RNeg(ComOffset)
        /\ \A id \in DOMAIN bhObjects :
              heap[bhObjects[id]].position = RSub(RInt(RawBh(id)), ComOffset)
        /\ \A id \in DOMAIN nsObjects :
              heap[nsObjects[id]].position = RSub(RInt(RawNs(id)), ComOffset)
        /\ \A h \in Range(ellipseObjects) :
              heap[h].position = RSub(RawBarycenter(heap[h].id[1], heap[h].id[2]), ComOffset)
        /\ \A i \in DOMAIN eventVectors :
              heap[eventVectors[i]].position = RSub(RawOrigin(eventVectors[i]), ComOffset)
\* CoM mode is on with an offset that is not zero, and the scene holds
\* neutron stars, ellipses, an arrow at a barycenter and an arrow at a particle
C21_Witness ==
    /\ updated /\ useComFrame /\ ComOffset # RZero
    /\ DOMAIN nsObjects # {} /\ Range(ellipseObjects) # {}
    /\ \E i, j \in DOMAIN eventVectors :
          Len(heap[eventVectors[i]].id) = 1 /\ Len(heap[eventVectors[j]].id) = 2

\* the ids a selected event names
EventActors(e) ==
    IF e.type = "EXCHANGE" THEN {e.id1, e.id2, e.id3, e.id4} ELSE {e.id1, e.id2}
\* those with a sphere that lies within SIMULATION_BOUNDS of the origin
LiveActorsIn(w) ==
    {id \in EventActors(Val(w.selectedEvent)) :
        id \in DOMAIN w.bhObjects /\ InBounds(PositionOf(w, id))}
\* the mean position of the spheres of a set of ids, each id counted once
MeanOfSet(w, ids) ==
    RDiv(ForEach(LAMBDA acc, id : RAdd(acc, PositionOf(w, id)), RZero, SortedSeq(ids)),
         Cardinality(ids))
HighlightLiveIn(w) ==
    ~IsNull(w.highlightedBhId) /\ Val(w.highlightedBhId) \in DOMAIN w.bhObjects
\* highlighted particle, else mean of the event's live actors in bounds, else origin
TargetPoint(w) ==
    IF HighlightLiveIn(w) THEN PositionOf(w, Val(w.highlightedBhId))
    ELSE IF ~IsNull(w.selectedEvent) /\ LiveActorsIn(w) # {} THEN MeanOfSet(w, LiveActorsIn(w))
    ELSE RZero
Tracking == ValidIndex(World, sliderValue) /\ isCameraTracking /\ ~xrPresenting
\* C22: with auto-tracking on and no immersive session, the target point an
\* update chooses is the position of the highlighted particle if a highlighted
\* id is set and has a sphere; else, if an event is selected, the mean position
\* of the event's live actors within SIMULATION_BOUNDS of the origin; else the
\* origin.  So with a highlighted id that has no sphere and an event whose
\* actors are live and in bounds, the target is the actors' mean position.
C22_TargetByPriority ==
    Tracking => UpdateAt(sliderValue).cameraGoalTarget = TargetPoint(UpdateAt(sliderValue))
\* the same with the case the scripts disagree on left out: no event is
\* selected, or the highlighted id has a sphere
C22_WithoutEventFallback ==
    (Tracking /\ (IsNull(selectedEvent) \/ HighlightLiveIn(UpdateAt(sliderValue)))) =>
        UpdateAt(sliderValue).cameraGoalTarget = TargetPoint(UpdateAt(sliderValue))

\* the case C22 singles out: the highlighted id has no sphere at the time on
\* display and the selected event has live actors in bounds
EventFallbackCase(w) ==
    /\ ~IsNull(w.highlightedBhId) /\ ~HighlightLiveIn(w)
    /\ ~IsNull(w.selectedEvent) /\ LiveActorsIn(w) # {}
C22_EventFallback ==
    (Tracking /\ EventFallbackCase(UpdateAt(sliderValue))) =>
        UpdateAt(sliderValue).cameraGoalTarget = MeanOfSet(UpdateAt(sliderValue),
                                                           LiveActorsIn(UpdateAt(sliderValue)))

\* the ids whose spheres the script that runs averages for the selected event
TrackedIdsIn(w) ==
    {id \in (IF w.variant = "P0" THEN EventActors(Val(w.selectedEvent))
             ELSE Range(actorIdsToTrack(Val(w.selectedEvent), w.timeKeys[w.sliderValue + 1],
                                        w.timeData[w.timeKeys[w.sliderValue + 1]]))) :
        id \in DOMAIN w.bhObjects /\ InBounds(PositionOf(w, id))}
MeanTargetCase(w) ==
    /\ IsNull(w.highlightedBhId) /\ ~IsNull(w.selectedEvent) /\ TrackedIdsIn(w) # {}
\* C23: when the camera target is the mean position of the selected event's
\* actors, each distinct actor id contributes exactly once to the mean, also
\* when an id is a member of both the old and the new binary of an Exchange
\* event.
C23_ActorsCountedOnce ==
    (Tracking /\ MeanTargetCase(UpdateAt(sliderValue))) =>
        UpdateAt(sliderValue).cameraGoalTarget =
            MeanOfSet(UpdateAt(sliderValue), TrackedIdsIn(UpdateAt(sliderValue)))
\* the same for the events that name no id twice
C23_WhenNoIdRepeats ==
    (Tracking /\ MeanTargetCase(UpdateAt(sliderValue))
              /\ (Val(selectedEvent).type = "EXCHANGE" =>
                     {Val(selectedEvent).id1, Val(selectedEvent).id2}
                         \cap {Val(selectedEvent).id3, Val(selectedEvent).id4} = {})) =>
        UpdateAt(sliderValue).cameraGoalTarget =
            MeanOfSet(UpdateAt(sliderValue), TrackedIdsIn(UpdateAt(sliderValue)))

\* one animation frame of the script that runs
FrameOf(w) == IF w.variant = "P0" THEN animate(w) ELSE animate_M1(w)
Suspended == xrPresenting \/ ~isCameraTracking
\* C24: an update performed while an immersive session is presenting, or
\* while auto-tracking is off, leaves the camera target goal unchanged, at
\* every time index; and an animation frame rendered while an immersive
\* session is presenting does not move the orbit-controls target towards the
\* goal.
C24_TrackingSuspended ==
    /\ Suspended =>
          \A idx \in 0..(Len(timeKeys) - 1) : UpdateAt(idx).cameraGoalTarget = cameraGoalTarget
    /\ xrPresenting => FrameOf(World).controlsTarget = controlsTarget
\* an immersive session is presenting with auto-tracking on, the goal is not
\* where an update on the desktop would move it, and no frame has moved the
\* orbit-controls target yet
C24_Witness ==
    /\ xrPresenting /\ isCameraTracking /\ ValidIndex(World, sliderValue)
    /\ cameraGoalTarget # TargetPoint(UpdateAt(sliderValue))
    /\ controlsTarget = "rest"

\* one animation frame of whichever of the three scripts runs
FrameOfAny(w) ==
    IF w.variant = "P0" THEN animate(w)
    ELSE IF w.variant = "M1" THEN animate_M1(w) ELSE animate_M2(w)
\* the index after the one on display, index 0 following the last one
NextIndex == IF sliderValue = Len(timeKeys) - 1 THEN 0 ELSE sliderValue + 1
\* frameCount counts the frames played since the last step
StepDue == isPlaying /\ frameCount + 1 >= framesPerUpdate
\* C25: while playing, the time index advances by exactly one step on every
\* framesPerUpdate-th animation frame and on no other frame, and never while
\* paused; it wraps to index 0 only after the last sampled timestep (index
\* N - 1) has been displayed, so continuous playback displays every sampled
\* timestep again and again.
C25_PlaybackCadence ==
    Len(timeKeys) > 0 =>
        /\ StepDue => FrameOfAny(World).sliderValue = NextIndex
        /\ ~StepDue => FrameOfAny(World).sliderValue = sliderValue
\* the cadence alone: a frame changes the index only when a step is due, and
\* then to the next index or to 0
C25_CadenceOnly ==
    Len(timeKeys) > 0 =>
        /\ StepDue => FrameOfAny(World).sliderValue \in {sliderValue + 1, 0}
        /\ ~StepDue => FrameOfAny(World).sliderValue = sliderValue

\* the state after the mass fields are given the values m and the update has run
FilterSet(m) == updateBlackHoles(setMassFilter(World, m), sliderValue)
MassShown(id) == Val(FindBh(bhRowsShown, id)).mass_msun
BothGiven(m) == ~IsNull(m[1]) /\ ~IsNull(m[2])
InMassRange(id, m) ==
    BothGiven(m) /\ Val(m[1]) <= MassShown(id) /\ MassShown(id) <= Val(m[2])
\* in w the live black holes with the mass-range colour are those in the range m
RangeColoured(w, m) ==
    \A id \in DOMAIN w.bhObjects :
        w.heap[w.bhObjects[id]].color = massRangeColor <=> InMassRange(id, m)
NoSelection ==
    /\ variant = "P0" /\ timeKeys # <<>>
    /\ IsNull(selectedEvent) /\ IsNull(highlightedBhId)
\* C26: with no event selected and no highlighted id, once the mass fields
\* are set (both bounds given with min <= max and non-negative, min = 0
\* included, or a bound absent) and the update has run, a live black hole has
\* the mass-range colour exactly when both bounds are given and
\* min <= mass <= max; with a bound absent no particle has it.
C26_MassRangeColourIffInRange ==
    NoSelection =>
        \A lo, hi \in FilterMassInputs :
            (BothGiven(<<lo, hi>>) => Val(lo) <= Val(hi)) =>
                RangeColoured(FilterSet(<<lo, hi>>), <<lo, hi>>)
\* the same with both bounds positive when given: this much the script does
C26_WithPositiveBounds ==
    NoSelection =>
        \A lo, hi \in FilterMassInputs \ {Some(0)} :
            (BothGiven(<<lo, hi>>) => Val(lo) <= Val(hi)) =>
                RangeColoured(FilterSet(<<lo, hi>>), <<lo, hi>>)

\* the state after k is typed into the highlight field and the update has run
HighlightSet(k) ==
    IF variant = "P0" THEN updateBlackHoles(setHighlight(World, k), sliderValue)
    ELSE updateBlackHoles_M1(setHighlight_M1(World, k), sliderValue)
HighlightColorOf == IF variant = "P0" THEN highlightColor ELSE HIGHLIGHT_COLOR
\* the colours of a particle that is not highlighted, with no event selected
PlainColors == IF variant = "P0" THEN {massRangeColor, DEFAULT_COLOR} ELSE {DEFAULT_COLOR_M1}
\* in w particle k alone has the highlight colour
OnlyHighlighted(w, k) ==
    \A id \in DOMAIN w.bhObjects :
        IF id = k THEN w.heap[w.bhObjects[id]].color = HighlightColorOf
        ELSE w.heap[w.bhObjects[id]].color \in PlainColors
NoEventShown == timeKeys # <<>> /\ IsNull(selectedEvent)
\* C27: with no event selected, once the highlighted id is set to an integer k
\* that is live at the timestep on display (0 included) and the update has
\* run, particle k has the highlight colour, in the mass range or not, and
\* every other particle has the mass-range colour or the default colour.
C27_ExactlyHighlightedColoured ==
    NoEventShown =>
        \A k \in FilterHighlightInputs \cap idsShown : OnlyHighlighted(HighlightSet(k), k)
\* the same for the ids that `parseInt(...) || null` keeps
C27_ForNonZeroIds ==
    NoEventShown =>
        \A k \in (FilterHighlightInputs \cap idsShown) \ {0} : OnlyHighlighted(HighlightSet(k), k)

\* the update of the script that runs, on the state w
UpdateOf(w, idx) ==
    IF variant = "P0" THEN updateBlackHoles(w, idx) ELSE updateBlackHoles_M1(w, idx)
\* the state with the event selector on None and the highlight cleared,
\* before the update that the handlers end in
Deselected == [World EXCEPT !.selectedEvent = Null, !.highlightedBhId = Null]
NoTransients(w) ==
    /\ {h \in w.scene : w.heap[h].type \in TRANSIENT_TYPES} = {}
    /\ w.ellipseObjects = EmptyMap
    /\ w.eventVectors = <<>>
\* C28: whatever event and highlight were active before and whatever
\* ellipses and arrows they left, an update (at any time index) that runs
\* with no event selected and no highlighted id leaves no ellipse and no
\* arrow, neither in the scene nor in ellipseObjects and eventVectors.
C28_NothingDrawnWithoutSelection ==
    \A idx \in 0..(Len(timeKeys) - 1) : NoTransients(UpdateOf(Deselected, idx))
\* an event and a highlight have drawn ellipses and arrows, which the update
\* without them removes
C28_Witness ==
    /\ ~IsNull(selectedEvent) /\ ~IsNull(highlightedBhId)
    /\ ellipseObjects # EmptyMap /\ eventVectors # <<>>
    /\ NoTransients(UpdateOf(Deselected, sliderValue))

\* in w the sampled times are finite numbers in strictly ascending order
TimesAscending(w) ==
    /\ \A i \in DOMAIN w.timeKeys : isFinite(w.timeKeys[i])
    /\ \A i, j \in DOMAIN w.timeKeys : i < j => w.timeKeys[i].n < w.timeKeys[j].n
\* in w every sampled time has a non-empty record set that holds every row
\* of the file f with that time
RowsGrouped(w, f) ==
    /\ DOMAIN w.timeData = Range(w.timeKeys)
    /\ \A t \in DOMAIN w.timeData :
          /\ w.timeData[t] # <<>>
          /\ \A i \in DOMAIN f : parseTime(f[i].time) = t => parseLine(f[i]) \in Range(w.timeData[t])
NumericFiles == {f \in CsvFiles : \A i \in DOMAIN f : f[i].time.cell = "num"}
\* C29: after the black-hole history is loaded, whatever the file holds, the
\* sampled times are strictly ascending and so duplicate-free, all of them
\* are finite numbers (a row whose time is missing or cannot be parsed adds
\* no entry), and the record set of each is non-empty and holds every loaded
\* row with that time.
C29_LoadedTimesSortedFinite ==
    "bh" \notin loaded =>
        \A f \in CsvFiles : \A w \in LoadResults(World, f) : TimesAscending(w) /\ RowsGrouped(w, f)
\* the same for the files in which every time cell is a decimal number
C29_ForNumericTimes ==
    "bh" \notin loaded =>
        \A f \in NumericFiles : \A w \in LoadResults(World, f) : TimesAscending(w) /\ RowsGrouped(w, f)

\* the particle id is recorded, has a sphere, and the sphere is in the scene
\* and visible at the low opacity
Dimmed(id) ==
    /\ id \in DOMAIN bhObjects /\ bhObjects[id] \in scene
    /\ heap[bhObjects[id]].visible
    /\ OpacityOf(id) = OPACITY_DIM
\* C30: with a Merge event selected and a displayed time before the event
\* time, every progenitor recorded in the timestep has the binary-member
\* colour at full opacity and every other recorded particle is dimmed to
\* opacity 0.1, still with its sphere in the scene and visible; with an
\* Exchange event selected every recorded particle the event does not name
\* is dimmed in the same way.
C30_NonActorsDimmedNotHidden ==
    /\ (MergeShown /\ timeShown < Val(selectedEvent).time) =>
          /\ \A id \in Progenitors \cap idsShown :
                 /\ id \in DOMAIN bhObjects
                 /\ ColorOf(id) = BinaryColor /\ OpacityOf(id) = OPACITY_FULL
          /\ \A id \in idsShown \ Progenitors : Dimmed(id)
    /\ ExchangeShown => \A id \in idsShown \ Actors : Dimmed(id)
\* the same while no id is highlighted
C30_WithoutHighlight ==
    IsNull(highlightedBhId) => C30_NonActorsDimmedNotHidden
\* a Merge event before its time with a progenitor and a dimmed particle
C30_Witness ==
    /\ MergeShown /\ timeShown < Val(selectedEvent).time
    /\ Progenitors \cap idsShown # {}
    /\ \E id \in idsShown \ Progenitors : Dimmed(id)
\* an Exchange event with a dimmed particle
C30_WitnessExchange ==
    /\ ExchangeShown
    /\ \E id \in idsShown \ Actors : Dimmed(id)

\* k_spin of the script that runs, times the user's spin scale where there is one
SpinScale ==
    IF variant = "P0" THEN Fraction(SPIN_VECTOR_SCALE.num * spinScaleMultiplier, SPIN_VECTOR_SCALE.den)
    ELSE SPIN_VECTOR_SCALE_M1
\* k_spin * a_spin * m^2 for the remnant's mass at the timestep on display
RemnantSpinLength ==
    FracMul(FracMul(SpinScale, PSEUDO_SPIN_PARAMETER_A),
            Fraction(RemnantRow.mass_msun * RemnantRow.mass_msun, 1))
\* the length l is the rational q
LengthIs(l, q) == l.sqrtOf = 1 /\ l.num * q.den = q.num * l.den
\* C31: the merge-spin arrow drawn at the remnant from the event time on has
\* the length (spin scale) x (spin parameter) x (mass of the remnant at the
\* timestep on display) squared, whatever the masses of the progenitors and
\* their orbital angular momentum before the merger are.
C31_MergeSpinLengthFromRemnantMass ==
    RemnantShown => \A h \in Arrows("mergeSpin") : LengthIs(heap[h].len, RemnantSpinLength)
\* the same in the script that computes the length from the remnant's row
C31_InPart000 ==
    variant = "P0" => C31_MergeSpinLengthFromRemnantMass
\* a merge-spin arrow stands at the remnant
C31_SpinArrowDrawn ==
    RemnantShown /\ Arrows("mergeSpin") # {}

\* the neutron-star spheres are those of the records of the timestep on display
NsShownIn(w) ==
    DOMAIN w.nsObjects = RowIds(NsRowsAt(w, w.timeKeys[w.sliderValue + 1]), "ns_id")
AllLoaded == {"bh", "ns", "events"} \subseteq loaded
\* C32: in whatever order the loads of the black-hole history, the
\* neutron-star history and the event catalogue complete, once all three
\* have completed (and the user has done nothing) the display is at time
\* index 0 and the neutron stars with a sphere are exactly those recorded
\* for that timestep.
C32_NeutronStarsShownAfterLoads ==
    AllLoaded => sliderValue = 0 /\ NsShownIn(World)
\* the same when the black-hole history completes after the neutron-star
\* history: its load ends in the update that places the neutron stars
C32_WhenHistoryCompletesLast ==
    ("ns" \in loaded /\ "bh" \notin loaded) =>
        \A T \in StartupTimes : NsShownIn(bhLoaded(World, T))

\* the event selector offers the loaded events, or the callback that fills
\* it is pending
SelectorPopulated == "selector" \in loaded \/ ENABLED PopulateEventSelector
\* the spheres are those of the timestep on display, also after a frame of playback
PlaybackWorks ==
    /\ timeKeys # <<>> /\ DOMAIN bhObjects = idsShown
    /\ LET w == FrameOfAny([World EXCEPT !.isPlaying = TRUE])
       IN  DOMAIN w.bhObjects = RowIds(w.timeData[w.timeKeys[w.sliderValue + 1]], "bh_id")
NsLoadFailed == "nsFailed" \in loaded /\ {"bh", "events"} \subseteq loaded
\* C33: when the load of the neutron-star history fails and the black-hole
\* history and the event catalogue load, black-hole playback works and the
\* event selector is populated with the loaded events.
C33_SessionSurvivesNsFailure ==
    NsLoadFailed => PlaybackWorks /\ SelectorPopulated
\* the playback half, and the selector in the scripts that catch the failure
C33_PlaybackSurvives ==
    NsLoadFailed => PlaybackWorks /\ (variant # "P0" => SelectorPopulated)

\* C34: in every reachable state, whatever the interleaving of clicks on the
\* play/pause button and presses on the time slider, the label of the button
\* is Pause exactly when isPlaying is true.
C34_LabelAgreesWithPlayback ==
    playLabel = "Pause" <=> isPlaying
\* the second half: after a press on the time slider playback is stopped
C34_PressStopsPlayback ==
    [][(SliderPointerDown \/ SliderMouseDown_M1 \/ SliderMouseDown_M2) => ~isPlaying']_vars
\* the label agrees in the two scripts of main.js
C34_InMainJs ==
    variant # "P0" => C34_LabelAgreesWithPlayback

\* the update of whichever of the three scripts runs, on the state w
UpdateOfAny(w, idx) ==
    IF w.variant = "P0" THEN updateBlackHoles(w, idx)
    ELSE IF w.variant = "M1" THEN updateBlackHoles_M1(w, idx)
    ELSE updateBlackHoles_M2(w, idx)
\* time indices below 0 and from N on (every index while no history is loaded)
IndicesBelow == {-2, -1}
IndicesPast == {Len(timeKeys), Len(timeKeys) + 1}
C35_TestedIndices ==
    /\ \A idx \in IndicesPast \cup (IF variant = "P0" THEN IndicesBelow ELSE {}) :
          ~UpdateOfAny(World, idx).raised /\ UpdateOfAny(World, idx) = World
    /\ timeKeys # <<>> => sliderValue \in 0..(Len(timeKeys) - 1)

EllipsesInScene == {h \in scene : heap[h].type = "Line"}
\* the pair whose orbit belongs to the phase on display: the new binary of an
\* Exchange from the event time on, else the pair (id1, id2)
PhasePair ==
    IF Val(selectedEvent).type = "EXCHANGE" /\ timeShown >= Val(selectedEvent).time
    THEN NewBinary ELSE Progenitors
\* C36: after every update of the scripts that visualise events, the scene
\* holds no orbit ellipse or two of them, never one; it holds two only with
\* an event selected and both members of the pair of the phase on display
\* recorded in the timestep, and none when no event is selected.
C36_EllipsesNoneOrTwo ==
    updated =>
        /\ Cardinality(EllipsesInScene) \in {0, 2}
        /\ EllipsesInScene # {} => ~IsNull(selectedEvent) /\ PhasePair \subseteq idsShown
        /\ IsNull(selectedEvent) => EllipsesInScene = {}
\* two ellipses are in the scene after an update
C36_Witness ==
    updated /\ ~IsNull(selectedEvent) /\ Cardinality(EllipsesInScene) = 2
\* an event is selected whose pair is not complete, and no ellipse is drawn
C36_WitnessNone ==
    /\ updated /\ ~IsNull(selectedEvent) /\ ~(PhasePair \subseteq idsShown)
    /\ EllipsesInScene = {}

====
